---- MODULE Spec2Model ----
(***************************************************************************)
(* Model of the mizpos desktop receipt printer core                        *)
(* (src-tauri/src/jp_escpos.rs, src-tauri/src/lib.rs) and of the terminal  *)
(* identity commands (src-tauri/src/terminal_auth.rs).                     *)
(*                                                                         *)
(* A command batch is the byte sequence handed to one JpPrinter::raw call. *)
(* Every engine operation is straight-line code whose branches depend only *)
(* on its arguments and on paper_width, and every raw call is followed by  *)
(* `?`; an operation is therefore modelled by the sequence of batches it   *)
(* passes to raw, in program order, and raw itself by the transport steps  *)
(* write and flush, each of which may fail and end the request.            *)
(*                                                                         *)
(* Text is a sequence of Unicode code points, a batch a sequence of bytes. *)
(***************************************************************************)
EXTENDS Integers, Sequences, FiniteSets, TLC

VARIABLES
    paper_width,  \* JpPrinter.paper_width of the session
    dev,          \* style state held by the physical printer
    pc,           \* "closed", "new", "ready", "busy", "failed"
    op,           \* the engine operation being executed
    sent,         \* number of batches the running operation has passed to raw
    io,           \* position inside raw: "write" or "flush"
    log,          \* transport calls of the running operation, oldest first
    script,       \* batches of the print command being run, in program order
    ret,          \* the value returned by the formatting function called last
    other,        \* a second print request running against the same device
    store,        \* the credentials in the OS keychain and the fallback file
    made,         \* number of keypairs generated so far
    term          \* the terminal command called last, its faults and result

\* the credential store and the terminal commands
terminal == <<store, made, term>>

vars ==
    <<paper_width, dev, pc, op, sent, io, log, script, ret, other, store,
      made, term>>

\* what no step of the session touches
apart == <<ret, other, terminal>>

----------------------------------------------------------------------------
(* Bounds of the model                                                     *)

\* longest text argument drawn for the engine operations
MaxTextLen == 1
\* largest line count drawn for feed, width drawn for line / double_line
MaxLines == 3
MaxSmallAmount == 40
\* number of keypairs generated in a run of the terminal commands
MaxIdentities == 2
\* number of keychain and file calls that fail during one terminal command
MaxFaults == 2

----------------------------------------------------------------------------
(* Sequence helpers                                                        *)

\* concatenation of ss[lo..hi], by halves so that long payloads stay shallow
RECURSIVE FlattenRange(_, _, _)
FlattenRange(ss, lo, hi) ==
    IF lo > hi THEN <<>>
    ELSE IF lo = hi THEN ss[lo]
    ELSE LET mid == (lo + hi) \div 2
         IN  FlattenRange(ss, lo, mid) \o FlattenRange(ss, mid + 1, hi)

Flatten(ss) == FlattenRange(ss, 1, Len(ss))

\* (the concatenation gives TLC a tuple, which it indexes in constant time)
Repeat(x, n) == [i \in 1..n |-> x] \o <<>>

SeqsUpTo(S, n) == UNION {[1..k -> S] : k \in 0..n}

Last(s) == s[Len(s)]

\* u8 / u16 / usize arithmetic of the source
Low8(n) == n % 256
High8(n) == (n \div 256) % 256
\* the distance between the operands instead of the saturated difference
SatSub_distance(a, b) == IF a >= b THEN a - b ELSE b - a

SatSub(a, b) == IF a >= b THEN a - b ELSE 0
Clamp(v, lo, hi) == IF v < lo THEN lo ELSE IF v > hi THEN hi ELSE v

\* Option<T>: None is the empty sequence, Some(v) the one-element sequence
None == <<>>
Some(v) == <<v>>
UnwrapOr(v, d) == IF v = None THEN d ELSE v[1]

----------------------------------------------------------------------------
(* Command constants, jp_escpos.rs:6-47                                    *)

HW_INIT == <<\H1b, \H40>>
CTL_LF == <<\H0a>>
PAPER_FULL_CUT == <<\H1d, \H56, \H00>>
PAPER_PART_CUT == <<\H1d, \H56, \H01>>

TXT_BOLD_ON == <<\H1b, \H45, \H01>>
TXT_BOLD_OFF == <<\H1b, \H45, \H00>>
TXT_UNDERL_ON == <<\H1b, \H2d, \H01>>
TXT_UNDERL_OFF == <<\H1b, \H2d, \H00>>
JP_UNDERL_ON == <<\H1c, \H2d, \H01>>
JP_UNDERL_OFF == <<\H1c, \H2d, \H00>>
TXT_ALIGN_LT == <<\H1b, \H61, \H00>>
TXT_ALIGN_CT == <<\H1b, \H61, \H01>>
TXT_ALIGN_RT == <<\H1b, \H61, \H02>>

TXT_REVERSE_ON == <<\H1d, \H42, \H01>>
TXT_REVERSE_OFF == <<\H1d, \H42, \H00>>

TXT_DOUBLE_SIZE == <<\H1b, \H21, \H30>>
TXT_NORMAL_SIZE == <<\H1b, \H21, \H00>>

QR_MODEL_2 == <<\H1D, \H28, \H6B, \H04, \H00, \H31, \HA5, \H32, \H00>>
QR_SIZE_PREFIX == <<\H1D, \H28, \H6B, \H03, \H00, \H31, \HA7>>
QR_ERROR_L == <<\H1D, \H28, \H6B, \H03, \H00, \H31, \HA9, \H30>>
QR_ERROR_M == <<\H1D, \H28, \H6B, \H03, \H00, \H31, \HA9, \H31>>
QR_PRINT == <<\H1D, \H28, \H6B, \H03, \H00, \H31, \HB5, \H30>>

JP_CHARCODE_JIS == <<\H1b, \H74, \H02>>
JP_KANJI_SELECT == <<\H1c, \H43, \H01>>
JP_KANJI_MODE_ON == <<\H1c, \H26>>
JP_KANJI_MODE_OFF == <<\H1c, \H2e>>
JP_KANJI_SIZE_CMD == <<\H1c, \H21>>

----------------------------------------------------------------------------
(* PaperWidth, Align, TextStyle, jp_escpos.rs:49-156                       *)

PaperWidth == {"Mm58", "Mm80"}

dots(pw) == IF pw = "Mm58" THEN 384 ELSE 576
chars(pw) == IF pw = "Mm58" THEN 32 ELSE 48
chars_jp(pw) == IF pw = "Mm58" THEN 16 ELSE 24

PaperWidthDefault == "Mm58"

Align == {"Left", "Center", "Right"}

TextStyle ==
    [bold : BOOLEAN, underline : BOOLEAN, double_width : BOOLEAN,
     double_height : BOOLEAN, reverse : BOOLEAN, align : Align]

TextStyleDefault ==
    [bold |-> FALSE, underline |-> FALSE, double_width |-> FALSE,
     double_height |-> FALSE, reverse |-> FALSE, align |-> "Left"]

\* the builder methods
bold(s) == [s EXCEPT !.bold = TRUE]
underline(s) == [s EXCEPT !.underline = TRUE]
double_width(s) == [s EXCEPT !.double_width = TRUE]
double_height(s) == [s EXCEPT !.double_height = TRUE]
align(s, a) == [s EXCEPT !.align = a]
center(s) == align(s, "Center")
right(s) == align(s, "Right")
reverse(s) == [s EXCEPT !.reverse = TRUE]
double(s) == double_height(double_width(s))

----------------------------------------------------------------------------
(* Legacy text encoder: SHIFT_JIS.encode of encoding_rs, jp_escpos.rs:270  *)

\* Rows <<code point, lead byte, trail byte>> of the JIS X 0208 index for
\* the characters the program prints.  Every character drawn as an input
\* is ASCII, has a row here, or has no Shift_JIS mapping at all.
JisRows == {
    <<12288, 129, 64>>, <<12289, 129, 65>>, <<12290, 129, 66>>,
    <<12304, 129, 121>>, <<12305, 129, 122>>, <<12354, 130, 160>>,
    <<12356, 130, 162>>, <<12358, 130, 164>>, <<12360, 130, 166>>,
    <<12362, 130, 168>>, <<12364, 130, 170>>, <<12365, 130, 171>>,
    <<12367, 130, 173>>, <<12369, 130, 175>>, <<12371, 130, 177>>,
    <<12372, 130, 178>>, <<12373, 130, 179>>, <<12375, 130, 181>>,
    <<12377, 130, 183>>, <<12379, 130, 185>>, <<12383, 130, 189>>,
    <<12384, 130, 190>>, <<12388, 130, 194>>, <<12391, 130, 197>>,
    <<12392, 130, 198>>, <<12394, 130, 200>>, <<12395, 130, 201>>,
    <<12398, 130, 204>>, <<12399, 130, 205>>, <<12402, 130, 208>>,
    <<12414, 130, 220>>, <<12415, 130, 221>>, <<12425, 130, 231>>,
    <<12426, 130, 232>>, <<12427, 130, 233>>, <<12434, 130, 240>>,
    <<12435, 130, 241>>, <<12450, 131, 65>>, <<12452, 131, 67>>,
    <<12454, 131, 69>>, <<12456, 131, 71>>, <<12458, 131, 73>>,
    <<12459, 131, 74>>, <<12463, 131, 78>>, <<12469, 131, 84>>,
    <<12472, 131, 87>>, <<12473, 131, 88>>, <<12475, 131, 90>>,
    <<12479, 131, 94>>, <<12483, 131, 98>>, <<12486, 131, 101>>,
    <<12487, 131, 102>>, <<12488, 131, 103>>, <<12489, 131, 104>>,
    <<12490, 131, 105>>, <<12503, 131, 118>>, <<12509, 131, 124>>,
    <<12510, 131, 125>>, <<12511, 131, 126>>, <<12522, 131, 138>>,
    <<12523, 131, 139>>, <<12524, 131, 140>>, <<12531, 131, 147>>,
    <<12539, 129, 69>>, <<12540, 129, 91>>, <<19968, 136, 234>>,
    <<19969, 146, 154>>, <<19978, 143, 227>>, <<19981, 149, 115>>,
    <<20081, 151, 144>>, <<20102, 151, 185>>, <<20107, 142, 150>>,
    <<20140, 139, 158>>, <<20184, 149, 116>>, <<20214, 140, 143>>,
    <<20250, 137, 239>>, <<20253, 147, 96>>, <<20813, 150, 198>>,
    <<20869, 147, 224>>, <<20870, 137, 126>>, <<20966, 143, 136>>,
    <<20998, 149, 170>>, <<21033, 151, 152>>, <<21047, 141, 252>>,
    <<21048, 140, 148>>, <<21152, 137, 193>>, <<21177, 140, 248>>,
    <<21306, 139, 230>>, <<21360, 136, 243>>, <<21462, 142, 230>>,
    <<21463, 142, 243>>, <<21495, 141, 134>>, <<21512, 141, 135>>,
    <<21517, 150, 188>>, <<21697, 149, 105>>, <<21729, 136, 245>>,
    <<21830, 143, 164>>, <<22580, 143, 234>>, <<22770, 148, 132>>,
    <<23383, 142, 154>>, <<23436, 138, 174>>, <<23455, 142, 192>>,
    <<23458, 139, 113>>, <<23481, 151, 101>>, <<23616, 139, 199>>,
    <<24046, 141, 183>>, <<24215, 147, 88>>, <<24341, 136, 248>>,
    <<24403, 147, 150>>, <<25173, 149, 165>>, <<25285, 146, 83>>,
    <<25324, 138, 135>>, <<25509, 144, 218>>, <<25903, 142, 120>>,
    <<25968, 144, 148>>, <<26085, 147, 250>>, <<26126, 150, 190>>,
    <<26178, 142, 158>>, <<26360, 143, 145>>, <<26377, 151, 76>>,
    <<26399, 138, 250>>, <<26411, 150, 150>>, <<26412, 150, 123>>,
    <<26481, 147, 140>>, <<26619, 141, 184>>, <<26684, 138, 105>>,
    <<26989, 139, 198>>, <<27096, 151, 108>>, <<27491, 144, 179>>,
    <<27714, 139, 129>>, <<28155, 147, 89>>, <<28171, 143, 97>>,
    <<28450, 138, 191>>, <<28857, 147, 95>>, <<29694, 140, 187>>,
    <<29702, 151, 157>>, <<29992, 151, 112>>, <<30058, 148, 212>>,
    <<30064, 136, 217>>, <<30330, 148, 173>>, <<30431, 150, 191>>,
    <<31038, 142, 208>>, <<31080, 149, 91>>, <<31246, 144, 197>>,
    <<31471, 146, 91>>, <<31561, 147, 153>>, <<31639, 142, 90>>,
    <<31934, 144, 184>>, <<32048, 141, 215>>, <<32097, 151, 141>>,
    <<32154, 145, 177>>, <<32773, 142, 210>>, <<33853, 151, 142>>,
    <<34892, 141, 115>>, <<35201, 151, 118>>, <<35336, 140, 118>>,
    <<35352, 139, 76>>, <<35379, 150, 243>>, <<35486, 140, 234>>,
    <<35531, 144, 191>>, <<35895, 146, 74>>, <<36012, 144, 211>>,
    <<36796, 141, 158>>, <<36820, 149, 212>>, <<36899, 152, 65>>,
    <<36969, 147, 75>>, <<37117, 147, 115>>, <<37329, 139, 224>>,
    <<37347, 146, 222>>, <<37549, 145, 75>>, <<37682, 152, 94>>,
    <<38281, 149, 194>>, <<38480, 140, 192>>, <<38936, 151, 204>>,
    <<38989, 138, 122>>, <<65296, 130, 79>>, <<65297, 130, 80>>,
    <<65298, 130, 81>>, <<65299, 130, 82>>, <<65300, 130, 83>>,
    <<65301, 130, 84>>, <<65302, 130, 85>>, <<65303, 130, 86>>,
    <<65304, 130, 87>>, <<65305, 130, 88>>, <<65308, 129, 131>>,
    <<65310, 129, 132>>, <<65509, 129, 143>>
    }

JIS0208 == [c \in {r[1] : r \in JisRows} |->
               LET r == CHOOSE x \in JisRows : x[1] = c IN <<r[2], r[3]>>]

\* u32::to_string, as ASCII code points
RECURSIVE to_string(_)
to_string(n) ==
    IF n < 10 THEN <<48 + n>> ELSE to_string(n \div 10) \o <<48 + (n % 10)>>

\* One character through the Shift_JIS encoder: ASCII is copied, half-width
\* katakana is one byte, an indexed character two bytes, and an unmappable
\* character becomes the numeric character reference &#N; (never an error).
sjis_char(c) ==
    IF c <= 128 THEN <<c>>
    ELSE IF c = 165 THEN <<92>>
    ELSE IF c = 8254 THEN <<126>>
    ELSE IF c >= 65377 /\ c <= 65439 THEN <<c - 65377 + 161>>
    ELSE IF c \in DOMAIN JIS0208 THEN JIS0208[c]
    ELSE <<38, 35>> \o to_string(c) \o <<59>>

encode_shift_jis(txt) == Flatten([i \in 1..Len(txt) |-> sjis_char(txt[i])])

\* str::as_bytes: the UTF-8 bytes of a text
utf8_char(c) ==
    IF c < 128 THEN <<c>>
    ELSE IF c < 2048 THEN <<192 + (c \div 64), 128 + (c % 64)>>
    ELSE IF c < 65536 THEN
        <<224 + (c \div 4096), 128 + ((c \div 64) % 64), 128 + (c % 64)>>
    ELSE <<240 + (c \div 262144), 128 + ((c \div 4096) % 64),
           128 + ((c \div 64) % 64), 128 + (c % 64)>>

\* (an ASCII text is its own UTF-8 encoding)
as_bytes(txt) ==
    IF \A i \in 1..Len(txt) : txt[i] < 128 THEN txt
    ELSE Flatten([i \in 1..Len(txt) |-> utf8_char(txt[i])])

----------------------------------------------------------------------------
(* JpPrinter operations, jp_escpos.rs:192-505: the batches each passes to  *)
(* raw, in program order                                                   *)

init(pw) ==
    <<HW_INIT, JP_CHARCODE_JIS, JP_KANJI_SELECT,
      <<\H1D, \H57, Low8(dots(pw)), High8(dots(pw))>> >>

set_left_margin(d) == << <<\H1D, \H4C, Low8(d), High8(d)>> >>

\* set_print_area_width sending the high byte first
set_print_area_width_big_endian(d) == << <<\H1D, \H57, High8(d), Low8(d)>> >>

set_print_area_width(d) == << <<\H1D, \H57, Low8(d), High8(d)>> >>

feed(lines) == Repeat(CTL_LF, lines)

\* a cut that sends the partial-cut command
cut_partial == <<PAPER_PART_CUT>>

cut == <<PAPER_FULL_CUT>>

partial_cut == <<PAPER_PART_CUT>>

set_align(a) ==
    IF a = "Left" THEN <<TXT_ALIGN_LT>>
    ELSE IF a = "Center" THEN <<TXT_ALIGN_CT>>
    ELSE <<TXT_ALIGN_RT>>

set_bold(on) == IF on THEN <<TXT_BOLD_ON>> ELSE <<TXT_BOLD_OFF>>

set_underline(on) ==
    IF on THEN <<TXT_UNDERL_ON, JP_UNDERL_ON>>
    ELSE <<TXT_UNDERL_OFF, JP_UNDERL_OFF>>

set_reverse(on) == IF on THEN <<TXT_REVERSE_ON>> ELSE <<TXT_REVERSE_OFF>>

set_double_size(on) == IF on THEN <<TXT_DOUBLE_SIZE>> ELSE <<TXT_NORMAL_SIZE>>

\* size_flag with the two bits exchanged
size_flag_swapped(style) ==
    IF style.double_width /\ style.double_height THEN 0
    ELSE (IF style.double_width THEN 8 ELSE 0)
         + (IF style.double_height THEN 4 ELSE 0)

\* the size_flag block of jp_text, jp_escpos.rs:297-309
size_flag(style) ==
    IF style.double_width /\ style.double_height THEN 0
    ELSE (IF style.double_width THEN 4 ELSE 0)
         + (IF style.double_height THEN 8 ELSE 0)

\* jp_text without the restore of jp_escpos.rs:328-330
jp_text_keeps_double_size(txt, style) ==
    LET flag == size_flag(style)
    IN  set_align(style.align)
        \o set_bold(style.bold)
        \o set_underline(style.underline)
        \o set_reverse(style.reverse)
        \o (IF style.double_width /\ style.double_height
            THEN set_double_size(TRUE) ELSE <<>>)
        \o <<JP_KANJI_MODE_ON>>
        \o (IF flag # 0 THEN <<JP_KANJI_SIZE_CMD \o <<flag>> >> ELSE <<>>)
        \o <<encode_shift_jis(txt)>>
        \o (IF flag # 0 THEN <<JP_KANJI_SIZE_CMD \o <<0>> >> ELSE <<>>)
        \o <<JP_KANJI_MODE_OFF>>
        \o set_bold(FALSE)
        \o set_underline(FALSE)
        \o set_reverse(FALSE)
        \o set_align("Left")

\* jp_text entering double-byte mode before the combined size command
jp_text_size_inside_window(txt, style) ==
    LET use_double_size == style.double_width /\ style.double_height
        flag == size_flag(style)
    IN  set_align(style.align)
        \o set_bold(style.bold)
        \o set_underline(style.underline)
        \o set_reverse(style.reverse)
        \o <<JP_KANJI_MODE_ON>>
        \o (IF use_double_size THEN set_double_size(TRUE) ELSE <<>>)
        \o (IF flag # 0 THEN <<JP_KANJI_SIZE_CMD \o <<flag>> >> ELSE <<>>)
        \o <<encode_shift_jis(txt)>>
        \o (IF flag # 0 THEN <<JP_KANJI_SIZE_CMD \o <<0>> >> ELSE <<>>)
        \o <<JP_KANJI_MODE_OFF>>
        \o (IF use_double_size THEN set_double_size(FALSE) ELSE <<>>)
        \o set_bold(FALSE)
        \o set_underline(FALSE)
        \o set_reverse(FALSE)
        \o set_align("Left")

\* jp_text restoring the alignment before bold, underline and reverse
jp_text_align_restored_first(txt, style) ==
    LET use_double_size == style.double_width /\ style.double_height
        flag == size_flag(style)
    IN  set_align(style.align)
        \o set_bold(style.bold)
        \o set_underline(style.underline)
        \o set_reverse(style.reverse)
        \o (IF use_double_size THEN set_double_size(TRUE) ELSE <<>>)
        \o <<JP_KANJI_MODE_ON>>
        \o (IF flag # 0 THEN <<JP_KANJI_SIZE_CMD \o <<flag>> >> ELSE <<>>)
        \o <<encode_shift_jis(txt)>>
        \o (IF flag # 0 THEN <<JP_KANJI_SIZE_CMD \o <<0>> >> ELSE <<>>)
        \o <<JP_KANJI_MODE_OFF>>
        \o (IF use_double_size THEN set_double_size(FALSE) ELSE <<>>)
        \o set_align("Left")
        \o set_bold(FALSE)
        \o set_underline(FALSE)
        \o set_reverse(FALSE)

\* jp_text leaving the double-byte size flags of jp_escpos.rs:320-324 set
jp_text_keeps_kanji_size(txt, style) ==
    LET use_double_size == style.double_width /\ style.double_height
        flag == size_flag(style)
    IN  set_align(style.align)
        \o set_bold(style.bold)
        \o set_underline(style.underline)
        \o set_reverse(style.reverse)
        \o (IF use_double_size THEN set_double_size(TRUE) ELSE <<>>)
        \o <<JP_KANJI_MODE_ON>>
        \o (IF flag # 0 THEN <<JP_KANJI_SIZE_CMD \o <<flag>> >> ELSE <<>>)
        \o <<encode_shift_jis(txt)>>
        \o <<JP_KANJI_MODE_OFF>>
        \o (IF use_double_size THEN set_double_size(FALSE) ELSE <<>>)
        \o set_bold(FALSE)
        \o set_underline(FALSE)
        \o set_reverse(FALSE)
        \o set_align("Left")

jp_text(txt, style) ==
    LET use_double_size == style.double_width /\ style.double_height
        flag == size_flag(style)
    IN  set_align(style.align)
        \o set_bold(style.bold)
        \o set_underline(style.underline)
        \o set_reverse(style.reverse)
        \o (IF use_double_size THEN set_double_size(TRUE) ELSE <<>>)
        \o <<JP_KANJI_MODE_ON>>
        \o (IF flag # 0 THEN <<JP_KANJI_SIZE_CMD \o <<flag>> >> ELSE <<>>)
        \o <<encode_shift_jis(txt)>>
        \o (IF flag # 0 THEN <<JP_KANJI_SIZE_CMD \o <<0>> >> ELSE <<>>)
        \o <<JP_KANJI_MODE_OFF>>
        \o (IF use_double_size THEN set_double_size(FALSE) ELSE <<>>)
        \o set_bold(FALSE)
        \o set_underline(FALSE)
        \o set_reverse(FALSE)
        \o set_align("Left")

jp_textln(txt, style) == jp_text(txt, style) \o feed(1)

text(txt) == jp_text(txt, TextStyleDefault)

textln(txt) == jp_textln(txt, TextStyleDefault)

line(width) == textln(Repeat(45, width))

\* a separator as long as the wide column count
separator_wide_columns(pw) == line(chars_jp(pw))

separator(pw) == line(chars(pw))

double_line(width) == textln(Repeat(61, width))

double_separator(pw) == double_line(chars(pw))

\* a width model that takes the Latin-1 range for narrow
char_width_latin1_narrow(c) == IF c <= 255 THEN 1 ELSE 2

char_width(c) == IF c <= 127 THEN 1 ELSE 2

RECURSIVE print_width(_)
print_width(s) ==
    IF s = <<>> THEN 0 ELSE char_width(Head(s)) + print_width(Tail(s))

\* a row whose fill forgets the width of the right text
row_text_ignores_right(left, right_, width) ==
    left \o Repeat(32, SatSub(width, print_width(left))) \o right_

\* a row cut to the width of the line
row_text_truncated(left, right_, width) ==
    LET space_len == SatSub(width, print_width(left) + print_width(right_))
        content == left \o Repeat(32, space_len) \o right_
    IN  IF Len(content) > width THEN SubSeq(content, 1, width) ELSE content

row_text(left, right_, width) ==
    LET left_len == print_width(left)
        right_len == print_width(right_)
        space_len == SatSub(width, left_len + right_len)
    IN  left \o Repeat(32, space_len) \o right_

row(left, right_, width) == textln(row_text(left, right_, width))

row_auto(left, right_, pw) == row(left, right_, chars(pw))

\* a label/value row in bold over the full line (its definition is not in
\* jp_escpos.rs; lib.rs calls it for the total rows)
row_auto_bold(left, right_, pw) ==
    jp_textln(row_text(left, right_, chars(pw)), bold(TextStyleDefault))

\* qr_code triggering the print before the data is stored
qr_code_print_before_store(data, size) ==
    LET sz == Clamp(UnwrapOr(size, 4), 1, 16)
        data_bytes == as_bytes(data)
        len == Len(data_bytes) + 3
    IN  <<QR_MODEL_2,
          QR_SIZE_PREFIX \o <<sz>>,
          QR_ERROR_M,
          QR_PRINT,
          <<\H1D, \H28, \H6B, Low8(len), High8(len), \H31, \HB4, \H30>>
              \o data_bytes>>

\* qr_code passing the requested cell size on as it is
qr_code_size_unclamped(data, size) ==
    LET sz == UnwrapOr(size, 4)
        data_bytes == as_bytes(data)
        len == Len(data_bytes) + 3
    IN  <<QR_MODEL_2,
          QR_SIZE_PREFIX \o <<sz>>,
          QR_ERROR_M,
          <<\H1D, \H28, \H6B, Low8(len), High8(len), \H31, \HB4, \H30>>
              \o data_bytes,
          QR_PRINT>>

qr_code(data, size) ==
    LET sz == Clamp(UnwrapOr(size, 4), 1, 16)
        data_bytes == as_bytes(data)
        len == Len(data_bytes) + 3
        pl == Low8(len)
        ph == High8(len)
    IN  <<QR_MODEL_2,
          QR_SIZE_PREFIX \o <<sz>>,
          QR_ERROR_M,
          <<\H1D, \H28, \H6B, pl, ph, \H31, \HB4, \H30>> \o data_bytes,
          QR_PRINT>>

qr_code_center(data, size) ==
    set_align("Center") \o qr_code(data, size) \o set_align("Left")

\* barcode_code128 passing the requested module width on as it is
barcode_code128_width_unclamped(data, height, width) ==
    LET h == UnwrapOr(height, 50)
        w == UnwrapOr(width, 2)
        data_bytes == as_bytes(data)
        n == Low8(Len(data_bytes))
    IN  << <<\H1D, \H48, \H02>>,
           <<\H1D, \H68, h>>,
           <<\H1D, \H77, w>>,
           <<\H1D, \H6B, \H49, n>> \o data_bytes >>

barcode_code128(data, height, width) ==
    LET h == UnwrapOr(height, 50)
        w == Clamp(UnwrapOr(width, 2), 2, 6)
        data_bytes == as_bytes(data)
        n == Low8(Len(data_bytes))
    IN  << <<\H1D, \H48, \H02>>,
           <<\H1D, \H68, h>>,
           <<\H1D, \H77, w>>,
           <<\H1D, \H6B, \H49, n>> \o data_bytes >>

barcode_code128_center(data, height, width) ==
    set_align("Center") \o barcode_code128(data, height, width)
    \o set_align("Left")

\* padding whose odd remainder goes to the left
padded_text_remainder_left(txt, style, pw) ==
    LET line_width ==
            IF style.double_width THEN chars_jp(pw) ELSE chars(pw)
        padding == SatSub(line_width, print_width(txt))
        right_pad == padding \div 2
        left_pad == padding - right_pad
    IN  IF style.align = "Center"
        THEN Repeat(32, left_pad) \o txt \o Repeat(32, right_pad)
        ELSE IF style.align = "Right" THEN Repeat(32, padding) \o txt
        ELSE txt \o Repeat(32, padding)

\* padding that counts a double-width character as twice as wide
padded_text_width_doubled(txt, style, pw) ==
    LET cw == print_width(txt)
        line_width ==
            IF style.double_width THEN chars_jp(pw) ELSE chars(pw)
        effective_char_width == IF style.double_width THEN cw * 2 ELSE cw
        padding == SatSub(line_width, effective_char_width)
        left_pad == padding \div 2
        right_pad == padding - left_pad
    IN  IF style.align = "Center"
        THEN Repeat(32, left_pad) \o txt \o Repeat(32, right_pad)
        ELSE IF style.align = "Right" THEN Repeat(32, padding) \o txt
        ELSE txt \o Repeat(32, padding)

padded_text(txt, style, pw) ==
    LET cw == print_width(txt)
        line_width ==
            IF style.double_width
               \/ (style.double_width /\ style.double_height)
            THEN chars_jp(pw) ELSE chars(pw)
        effective_char_width == cw
        padding == SatSub(line_width, effective_char_width)
        left_pad == padding \div 2
        right_pad == padding - left_pad
    IN  IF style.align = "Center"
        THEN Repeat(32, left_pad) \o txt \o Repeat(32, right_pad)
        ELSE IF style.align = "Right" THEN Repeat(32, padding) \o txt
        ELSE txt \o Repeat(32, padding)

jp_textln_padded(txt, style, pw) ==
    jp_textln(padded_text(txt, style, pw), [style EXCEPT !.align = "Left"])

----------------------------------------------------------------------------
(* The printer: the style state the command table of jp_escpos.rs:6-47     *)
(* sets and clears.  The device keeps it across writes and sessions.       *)

DevBaseline ==
    [align |-> "Left", bold |-> FALSE, underline |-> FALSE,
     jp_underline |-> FALSE, reverse |-> FALSE, double_size |-> FALSE,
     kanji_mode |-> FALSE, kanji_size |-> 0]

IsCmd(b, prefix, n) == Len(b) = n /\ SubSeq(b, 1, Len(prefix)) = prefix

\* the state of the device after it has received batch b
dev_apply(d, b) ==
    IF b = HW_INIT THEN DevBaseline
    ELSE IF IsCmd(b, <<\H1b, \H61>>, 3) THEN
        [d EXCEPT !.align = IF b[3] = 1 THEN "Center"
                            ELSE IF b[3] = 2 THEN "Right" ELSE "Left"]
    ELSE IF IsCmd(b, <<\H1b, \H45>>, 3) THEN [d EXCEPT !.bold = (b[3] # 0)]
    ELSE IF IsCmd(b, <<\H1b, \H2d>>, 3) THEN
        [d EXCEPT !.underline = (b[3] # 0)]
    ELSE IF IsCmd(b, <<\H1c, \H2d>>, 3) THEN
        [d EXCEPT !.jp_underline = (b[3] # 0)]
    ELSE IF IsCmd(b, <<\H1d, \H42>>, 3) THEN [d EXCEPT !.reverse = (b[3] # 0)]
    ELSE IF IsCmd(b, <<\H1b, \H21>>, 3) THEN
        [d EXCEPT !.double_size = (b[3] # 0)]
    ELSE IF b = JP_KANJI_MODE_ON THEN [d EXCEPT !.kanji_mode = TRUE]
    ELSE IF b = JP_KANJI_MODE_OFF THEN [d EXCEPT !.kanji_mode = FALSE]
    ELSE IF IsCmd(b, JP_KANJI_SIZE_CMD, 3) THEN [d EXCEPT !.kanji_size = b[3]]
    ELSE d

----------------------------------------------------------------------------
(* Inputs drawn for the engine operations                                  *)

\* 'A', HIRAGANA A (two Shift_JIS bytes, three UTF-8 bytes)
Chars == {65, 12354}

\* U+1F600 has no Shift_JIS mapping
Unmappable == <<128512>>

Texts == SeqsUpTo(Chars, MaxTextLen) \cup {Unmappable}

OptU8 == {None} \cup {Some(v) : v \in {0, 1, 2, 4, 6, 7, 16, 17, 50, 255}}

DotValues == {0, 255, 256, 384, 576, 65535}

\* lengths of the long symbol payloads ('A' repeated): a QR store length
\* N + 3 below, at and past a byte boundary (255, 256) and at the 16-bit
\* boundary (65536); a barcode length at the 8-bit boundary (255, 256)
QrLongLens == {252, 253, 65533}
BarcodeLongLens == {255, 256}

\* rows of the width 10: "A" | "B", "ABCDEFGHIJ" | "K" (the content alone
\* is wider than the row), and a row of the characters at the two ends of
\* the narrow range and just past it (U+0000, U+007F | U+0080, U+00FF)
RowExamples ==
    {[name |-> "row", left |-> l, right |-> r, width |-> 10] :
        l \in {<<65>>, <<65, 66, 67, 68, 69, 70, 71, 72, 73, 74>>},
        r \in {<<66>>, <<75>>}}
    \cup {[name |-> "row", left |-> <<0, 127>>, right |-> <<128, 255>>,
           width |-> 10]}

\* texts wider than the wide-column count of 58 mm paper (nine wide
\* characters: 18 cells) and than every column count (49 narrow characters)
WideTexts == {Repeat(12354, 9), Repeat(65, 49)}

NoOp == [name |-> "none"]

TextOps ==
    {[name |-> n, txt |-> t, style |-> s] :
        n \in {"jp_text", "jp_textln", "jp_textln_padded"},
        t \in Texts, s \in TextStyle}
    \cup {[name |-> n, txt |-> t] : n \in {"text", "textln"}, t \in Texts}
    \cup {[name |-> "jp_textln_padded", txt |-> t, style |-> s] :
            t \in WideTexts, s \in TextStyle}

LineOps ==
    {[name |-> n] : n \in {"separator", "double_separator"}}
    \cup {[name |-> n, width |-> w] :
            n \in {"line", "double_line"}, w \in 0..MaxLines}
    \cup {[name |-> "row", left |-> l, right |-> r, width |-> w] :
            l \in Texts, r \in Texts, w \in 0..MaxLines}
    \cup {[name |-> "row_auto", left |-> l, right |-> r] :
            l \in Texts, r \in Texts}
    \cup RowExamples

\* the payload of a symbol operation is its text `data` taken `times` times
SymbolOps ==
    {[name |-> "qr_code", data |-> t, times |-> 1, size |-> z] :
        t \in Texts, z \in OptU8}
    \cup {[name |-> "qr_code", data |-> <<65>>, times |-> n, size |-> None] :
            n \in QrLongLens}
    \cup {[name |-> "qr_code_center", data |-> t, times |-> 1, size |-> z] :
            t \in Texts, z \in OptU8}
    \cup {[name |-> n, data |-> t, times |-> 1, height |-> h, width |-> w] :
            n \in {"barcode_code128", "barcode_code128_center"},
            t \in Texts, h \in {None, Some(0), Some(50), Some(255)},
            w \in OptU8}
    \cup {[name |-> "barcode_code128", data |-> <<65>>, times |-> n,
           height |-> None, width |-> None] : n \in BarcodeLongLens}

ControlOps ==
    {[name |-> "feed", lines |-> n] : n \in 0..MaxLines}
    \cup {[name |-> n] : n \in {"cut", "partial_cut"}}
    \cup {[name |-> n, dots |-> d] :
            n \in {"set_left_margin", "set_print_area_width"},
            d \in DotValues}

EngineOps == TextOps \cup LineOps \cup SymbolOps \cup ControlOps

Payload(o) ==
    [i \in 1..(Len(o.data) * o.times) |-> o.data[((i - 1) % Len(o.data)) + 1]]
    \o <<>>

\* the batches operation o passes to raw on a printer of paper width pw
\* stands in a program where the command panics: it is no batch, nothing is
\* written for it and nothing after it is reached
PanicMark == <<256>>

Batches(o, pw) ==
    CASE o.name = "init" -> init(pw)
      [] o.name = "jp_text" -> jp_text(o.txt, o.style)
      [] o.name = "jp_textln" -> jp_textln(o.txt, o.style)
      [] o.name = "jp_textln_padded" -> jp_textln_padded(o.txt, o.style, pw)
      [] o.name = "text" -> text(o.txt)
      [] o.name = "textln" -> textln(o.txt)
      [] o.name = "separator" -> separator(pw)
      [] o.name = "double_separator" -> double_separator(pw)
      [] o.name = "line" -> line(o.width)
      [] o.name = "double_line" -> double_line(o.width)
      [] o.name = "row" -> row(o.left, o.right, o.width)
      [] o.name = "row_auto" -> row_auto(o.left, o.right, pw)
      [] o.name = "row_auto_bold" -> row_auto_bold(o.left, o.right, pw)
      [] o.name = "qr_code" -> qr_code(Payload(o), o.size)
      [] o.name = "qr_code_center" -> qr_code_center(Payload(o), o.size)
      [] o.name = "barcode_code128" ->
            barcode_code128(Payload(o), o.height, o.width)
      [] o.name = "barcode_code128_center" ->
            barcode_code128_center(Payload(o), o.height, o.width)
      [] o.name = "feed" -> feed(o.lines)
      [] o.name = "cut" -> cut
      [] o.name = "partial_cut" -> partial_cut
      [] o.name = "set_left_margin" -> set_left_margin(o.dots)
      [] o.name = "set_print_area_width" -> set_print_area_width(o.dots)
      [] o.name = "panic" -> <<PanicMark>>

----------------------------------------------------------------------------
(* The print commands (lib.rs): each is the sequence of its printer calls  *)

\* parse_paper_width with the two sizes exchanged in the fallback arm
parse_paper_width_default_80(paper_width_) ==
    IF paper_width_ = Some(58) THEN "Mm58" ELSE "Mm80"

parse_paper_width(paper_width_) ==
    IF paper_width_ = Some(80) THEN "Mm80" ELSE "Mm58"

\* str::len: the length in bytes
str_len(s) == Len(as_bytes(s))

\* the byte offset at which the first i characters of s end
byte_offset(s, i) == str_len(SubSeq(s, 1, i))

\* str::is_char_boundary: the start, the end, or the first byte of a character
is_char_boundary(s, k) == \E i \in 0..Len(s) : byte_offset(s, i) = k

\* &s[a..b] panics unless a <= b and both are character boundaries of s
slice_panics(s, a, b) ==
    ~(a <= b /\ is_char_boundary(s, a) /\ is_char_boundary(s, b))

\* &s[a..b]: the characters that hold the bytes a..b-1
slice(s, a, b) ==
    IF slice_panics(s, a, b) THEN <<>>
    ELSE LET chars_to(k) == CHOOSE i \in 0..Len(s) : byte_offset(s, i) = k
         IN  SubSeq(s, chars_to(a) + 1, chars_to(b))

replace(s, from, to) ==
    [i \in 1..Len(s) |-> IF s[i] = from THEN to ELSE s[i]] \o <<>>

RECURSIVE trim_start_matches(_, _)
trim_start_matches(s, c) ==
    IF s # <<>> /\ Head(s) = c THEN trim_start_matches(Tail(s), c) ELSE s

\* ASCII letters only
to_lowercase(s) ==
    [i \in 1..Len(s) |-> IF s[i] \in 65..90 THEN s[i] + 32 ELSE s[i]] \o <<>>

RECURSIVE digits_value(_)
digits_value(s) ==
    IF s = <<>> THEN 0
    ELSE 10 * digits_value(SubSeq(s, 1, Len(s) - 1)) + (s[Len(s)] - 48)

\* str::parse::<u32>: an optional '+', then decimal digits, within 32 bits
parse(s) ==
    LET ds == IF s # <<>> /\ Head(s) = 43 THEN Tail(s) ELSE s
    IN  IF ds # <<>> /\ (\A i \in 1..Len(ds) : ds[i] \in 48..57)
           /\ Len(ds) <= 9
        THEN Some(digits_value(ds)) ELSE None

\* {:02}
fmt_02(n) == IF n < 10 THEN <<48>> \o to_string(n) ELSE to_string(n)

\* the match of to_fullwidth_number without its arm for '0'
fullwidth_char_zero_kept(c) ==
    IF c \in 49..57 THEN c + 65248 ELSE c

\* the match of to_fullwidth_number: a digit to its full-width form
fullwidth_char(c) ==
    CASE c = 48 -> 65296
      [] c = 49 -> 65297
      [] c = 50 -> 65298
      [] c = 51 -> 65299
      [] c = 52 -> 65300
      [] c = 53 -> 65301
      [] c = 54 -> 65302
      [] c = 55 -> 65303
      [] c = 56 -> 65304
      [] c = 57 -> 65305
      [] OTHER -> c

to_fullwidth_number(num) ==
    LET s == to_string(num)
    IN  [i \in 1..Len(s) |-> fullwidth_char(s[i])] \o <<>>

\* the loop of format_price with a separator after the last digit too
RECURSIVE format_price_loop_trailing_separator(_, _, _)
format_price_loop_trailing_separator(s, i, result) ==
    IF i = Len(s) THEN result
    ELSE format_price_loop_trailing_separator(s, i + 1,
            <<s[Len(s) - i]>>
            \o (IF i % 3 = 0 THEN <<44>> \o result ELSE result))

RECURSIVE format_price_loop(_, _, _)
format_price_loop(s, i, result) ==
    IF i = Len(s) THEN result
    ELSE format_price_loop(s, i + 1,
            <<s[Len(s) - i]>>
            \o (IF i > 0 /\ i % 3 = 0 THEN <<44>> \o result ELSE result))

format_price(price) ==
    <<65509>> \o format_price_loop(to_string(price), 0, <<>>)

\* format_book_number reading the price from offsets [8:11]
format_book_number_short_price(isdn, jan2) ==
    IF isdn = None \/ jan2 = None THEN None
    ELSE LET isdn_str == isdn[1]
             jan2_str == jan2[1]
         IN  IF isdn_str = <<>> \/ str_len(jan2_str) < 12 THEN None
             ELSE LET c_code == <<67>> \o slice(jan2_str, 3, 7)
                      price_str == slice(jan2_str, 8, 11)
                      price_value ==
                          UnwrapOr(parse(trim_start_matches(price_str, 48)),
                                   0)
                  IN  Some(isdn_str \o <<32>> \o c_code \o <<32>>
                           \o format_price(price_value))

format_book_number(isdn, jan2) ==
    IF isdn = None \/ jan2 = None THEN None
    ELSE LET isdn_str == isdn[1]
             jan2_str == jan2[1]
         IN  IF isdn_str = <<>> \/ str_len(jan2_str) < 12 THEN None
             ELSE LET c_code == <<67>> \o slice(jan2_str, 3, 7)
                      price_str == slice(jan2_str, 8, 12)
                      price_value ==
                          UnwrapOr(parse(trim_start_matches(price_str, 48)),
                                   0)
                  IN  Some(isdn_str \o <<32>> \o c_code \o <<32>>
                           \o format_price(price_value))

\* the two slices of format_book_number are reached and one of them panics
format_book_number_panics(isdn, jan2) ==
    /\ isdn # None /\ jan2 # None
    /\ ~(isdn[1] = <<>> \/ str_len(jan2[1]) < 12)
    /\ slice_panics(jan2[1], 3, 7) \/ slice_panics(jan2[1], 8, 12)

\* the two slices of format_transaction_datetime are reached and one panics
format_transaction_datetime_panics(iso_datetime) ==
    /\ str_len(iso_datetime) >= 16
    /\ slice_panics(iso_datetime, 0, 10)
       \/ slice_panics(iso_datetime, 11, 16)

format_transaction_datetime(iso_datetime) ==
    IF str_len(iso_datetime) >= 16
    THEN replace(slice(iso_datetime, 0, 10), 45, 47) \o <<32>>
         \o slice(iso_datetime, 11, 16)
    ELSE iso_datetime

\* the printer calls, as the records Batches takes
printer_init == [name |-> "init"]
printer_jp_textln(txt, style) ==
    [name |-> "jp_textln", txt |-> txt, style |-> style]
printer_jp_textln_padded(txt, style) ==
    [name |-> "jp_textln_padded", txt |-> txt, style |-> style]
printer_textln(txt) == [name |-> "textln", txt |-> txt]
printer_separator == [name |-> "separator"]
printer_row_auto(left, right_) ==
    [name |-> "row_auto", left |-> left, right |-> right_]
printer_row_auto_bold(left, right_) ==
    [name |-> "row_auto_bold", left |-> left, right |-> right_]
printer_qr_code_center(data, size) ==
    [name |-> "qr_code_center", data |-> data, times |-> 1, size |-> size]
printer_feed(lines) == [name |-> "feed", lines |-> lines]
printer_cut == [name |-> "cut"]

\* the point at which the command panics and unwinds instead of going on
panic_call == [name |-> "panic"]

\* the calls made before the first panic, and that panic
UntilPanic(calls) ==
    LET ps == {k \in 1..Len(calls) : calls[k].name = "panic"}
    IN  IF ps = {} THEN calls
        ELSE SubSeq(calls, 1, CHOOSE k \in ps : \A j \in ps : k <= j)

\* `if cond { calls }`
When(cond, calls) == IF cond THEN calls ELSE <<>>

welcome_print(id) ==
    <<printer_init,
      printer_jp_textln(<<87, 69, 76, 67, 79, 77, 69, 32, 84, 79, 32, 109,
          105, 122, 80, 79, 83>>,
                        center(underline(bold(TextStyleDefault)))),
      printer_textln(<<>>),
      printer_jp_textln(<<109, 105, 122, 80, 79, 83, 32, 12487, 12473,
          12463, 12488, 12483, 12503, 12479, 12540, 12511, 12490, 12523>>,
          center(TextStyleDefault)),
      printer_jp_textln(<<25509, 32154, 12486, 12473, 12488, 23436,
          20102>>, center(TextStyleDefault)),
      printer_textln(<<>>),
      printer_separator,
      printer_row_auto(<<12479, 12540, 12511, 12490, 12523, 73, 68, 58>>, id),
      printer_separator,
      printer_textln(<<>>),
      printer_jp_textln(<<26085, 26412, 35486, 21360, 21047, 12486, 12473,
          12488>>, bold(TextStyleDefault)),
      printer_textln(<<12402, 12425, 12364, 12394, 58, 32, 12354, 12356,
          12358, 12360, 12362>>),
      printer_textln(<<12459, 12479, 12459, 12490, 58, 32, 12450, 12452,
          12454, 12456, 12458>>),
      printer_textln(<<28450, 23383, 58, 32, 26481, 20140, 37117, 28171,
          35895, 21306>>),
      printer_textln(<<>>),
      printer_feed(3),
      printer_cut>>

text_print(text_) ==
    <<printer_init, printer_textln(text_), printer_feed(3), printer_cut>>

\* the unit price rounded up instead of down
unit_price_rounded_up(item) ==
    IF item.quantity > 0
    THEN (item.price + item.quantity - 1) \div item.quantity
    ELSE item.price

\* `if item.quantity > 0 { item.price / item.quantity } else { item.price }`
unit_price(item) ==
    IF item.quantity > 0 THEN item.price \div item.quantity
    ELSE item.price

\* the body of `for item in &receipt.items`
print_receipt_item(item) ==
    LET display_number ==
            IF item.is_book
            THEN UnwrapOr(format_book_number(item.isdn, item.jan2), item.jan)
            ELSE item.jan
    IN  IF item.is_book /\ format_book_number_panics(item.isdn, item.jan2)
        THEN <<panic_call>>
        ELSE
        <<printer_jp_textln(display_number, bold(TextStyleDefault)),
          printer_jp_textln(item.circle_name \o <<32, 47, 32>> \o item.name,
                            TextStyleDefault),
          printer_jp_textln(
              <<64, 32>> \o format_price(unit_price(item)) \o <<12288, 32>>
              \o to_string(item.quantity) \o <<32, 28857, 12288>>
              \o format_price(item.price),
              bold(right(TextStyleDefault)))>>

\* Option::filter(|s| !s.is_empty())
filter_not_empty(s) == IF s # None /\ s[1] # <<>> THEN s ELSE None

\* Option::or
or(a, b) == IF a # None THEN a ELSE b

\* the card brand as displayed
brand_display(brand) ==
    LET b == to_lowercase(brand)
    IN  CASE b = <<118, 105, 115, 97>> -> <<86, 73, 83, 65>>
          [] b \in {<<109, 97, 115, 116, 101, 114, 99, 97, 114, 100>>,
              <<109, 99>>} -> <<77, 97, 115, 116, 101, 114, 67, 97, 114, 100>>
          [] b \in {<<97, 109, 101, 120>>, <<97, 109, 101, 114, 105, 99,
              97, 110, 95, 101, 120, 112, 114, 101, 115, 115>>} -> <<65, 77,
              69, 88>>
          [] b = <<106, 99, 98>> -> <<74, 67, 66>>
          [] b \in {<<100, 105, 110, 101, 114, 115>>, <<100, 105, 110,
              101, 114, 115, 95, 99, 108, 117, 98>>} -> <<68, 105, 110, 101,
              114, 115, 32, 67, 108, 117, 98>>
          [] b = <<100, 105, 115, 99, 111, 118, 101, 114>> -> <<68, 105,
              115, 99, 111, 118, 101, 114>>
          [] b = <<117, 110, 105, 111, 110, 112, 97, 121>> -> <<85, 110,
              105, 111, 110, 80, 97, 121>>
          [] OTHER -> brand

\* the body of `if let Some(ref card) = receipt.card_details`
print_receipt_card(receipt, card) ==
    LET merchant_name ==
            or(filter_not_empty(card.merchant_name),
               filter_not_empty(receipt.circle_name))
        pi_id == receipt.payment_intent_id
        display_id ==
            IF str_len(pi_id[1]) > 16
            THEN <<46, 46, 46>> \o slice(pi_id[1], str_len(pi_id[1]) - 12,
                str_len(pi_id[1]))
            ELSE pi_id[1]
        tx_type == UnwrapOr(card.transaction_type, <<115, 97, 108, 101>>)
        tx_type_display ==
            CASE tx_type = <<115, 97, 108, 101>> -> <<22770, 19978>>
              [] tx_type = <<114, 101, 102, 117, 110, 100>> -> <<36820,
                  21697>>
              [] OTHER -> tx_type
        payment_type == UnwrapOr(card.payment_type, <<19968, 25324>>)
    IN  <<printer_textln(<<>>),
          printer_jp_textln_padded(<<12463, 12524, 12472, 12483, 12488,
              22770, 19978, 31080>>,
                                   center(reverse(TextStyleDefault))),
          printer_textln(<<>>)>>
        \o When(merchant_name # None,
                <<printer_row_auto(<<21152, 30431, 24215, 21517, 58>>,
                    merchant_name[1])>>)
        \o When(card.terminal_serial_number # None,
                <<printer_row_auto(<<31471, 26411, 30058, 21495, 58>>,
                                   card.terminal_serial_number[1])>>)
        \o When(card.transaction_at # None,
                IF format_transaction_datetime_panics(card.transaction_at[1])
                THEN <<panic_call>>
                ELSE <<printer_row_auto(
                    <<12372, 21033, 29992, 26085, 26178, 58>>,
                    format_transaction_datetime(card.transaction_at[1]))>>)
        \o When(pi_id # None,
                IF str_len(pi_id[1]) > 16
                   /\ slice_panics(pi_id[1], str_len(pi_id[1]) - 12,
                                   str_len(pi_id[1]))
                THEN <<panic_call>>
                ELSE <<printer_row_auto(<<20253, 31080, 30058, 21495, 58>>,
                                       display_id)>>)
        \o <<printer_separator>>
        \o When(card.last4 # None,
                <<printer_row_auto(<<20250, 21729, 30058, 21495, 58>>,
                                   <<42, 42, 42, 42, 32, 42, 42, 42, 42,
                                       32, 42, 42, 42, 42, 32>> \o
                                       card.last4[1])>>)
        \o <<printer_row_auto(<<21462, 24341, 20869, 23481, 58>>,
            tx_type_display),
             printer_row_auto(<<25903, 25173, 21306, 20998, 58>>,
                 payment_type)>>
        \o When(card.brand # None,
                <<printer_row_auto(<<12459, 12540, 12489, 20250, 31038, 58>>,
                                   brand_display(card.brand[1]))>>)
        \o When(card.exp_month # None /\ card.exp_year # None,
                <<printer_row_auto(
                    <<26377, 21177, 26399, 38480, 58>>,
                    fmt_02(card.exp_month[1]) \o <<47>>
                    \o fmt_02(card.exp_year[1] % 100))>>)
        \o <<printer_separator,
             printer_row_auto_bold(<<12372, 21033, 29992, 37329, 38989,
                 58>>, format_price(receipt.total)),
             printer_textln(<<>>),
             printer_jp_textln(<<12304, 12362, 23458, 27096, 12469, 12452,
                 12531, 12305>>, bold(TextStyleDefault)),
             printer_textln(<<>>),
             printer_jp_textln_padded(<<65308, 73, 67, 21462, 24341,
                 12395, 12388, 12365, 19981, 35201, 65310>>,
                                      center(TextStyleDefault)),
             printer_textln(<<>>),
             printer_separator,
             printer_jp_textln(<<19978, 35352, 27491, 12395, 21463, 38936,
                 12356, 12383, 12375, 12414, 12375, 12383>>,
                               center(TextStyleDefault))>>
        \o When(pi_id # None,
                <<printer_textln(<<>>),
                  printer_qr_code_center(pi_id[1], Some(4))>>)

\* the cash payments of the receipt taken together as one payment
find_cash_sum(payments) ==
    LET found == {i \in 1..Len(payments) : payments[i].method = <<29694,
        37329>>}
        sum[i \in 0..Len(payments)] ==
            IF i = 0 THEN 0
            ELSE sum[i - 1] + (IF i \in found THEN payments[i].amount ELSE 0)
    IN  IF found = {} THEN None
        ELSE Some([method |-> <<29694, 37329>>,
                   amount |-> sum[Len(payments)]])

\* Iterator::find(|p| p.method == "現金")
find_cash(payments) ==
    LET found == {i \in 1..Len(payments) : payments[i].method = <<29694,
        37329>>}
    IN  IF found = {} THEN None
        ELSE Some(payments[CHOOSE i \in found : \A j \in found : i <= j])

\* the tax row written whatever the tax figures are
print_receipt_tax_unconditional(receipt) ==
    <<printer_row_auto(
        <<40, 20869, 32>> \o to_string(receipt.tax_rate) \o
            <<37, 31246, 41>>,
        format_price(receipt.tax_amount))>>

\* `if receipt.tax_rate > 0 && receipt.tax_amount > 0 { row_auto }`
print_receipt_tax(receipt) ==
    When(receipt.tax_rate > 0 /\ receipt.tax_amount > 0,
         <<printer_row_auto(
             <<40, 20869, 32>> \o to_string(receipt.tax_rate) \o
                 <<37, 31246, 41>>,
             format_price(receipt.tax_amount))>>)

print_receipt(receipt) ==
    LET cash_payment == find_cash(receipt.payments)
        change == SatSub(cash_payment[1].amount, receipt.total)
    IN  <<printer_init>>
        \o When(receipt.circle_name # None
                /\ receipt.circle_name[1] # <<>>,
                <<printer_jp_textln_padded(
                    receipt.circle_name[1],
                    center(double(TextStyleDefault)))>>)
        \o When(receipt.venue_address # None
                /\ receipt.venue_address[1] # <<>>
                /\ receipt.event_name # <<>>,
                <<printer_jp_textln(receipt.event_name,
                                    bold(TextStyleDefault)),
                  printer_jp_textln(receipt.venue_address[1],
                                    TextStyleDefault)>>)
        \o <<printer_jp_textln_padded(
                <<12372, 26126, 32048, 26360>>,
                    center(reverse(double(TextStyleDefault)))),
             printer_jp_textln(<<35, 32>> \o receipt.receipt_number,
                               TextStyleDefault),
             IF receipt.sale_start_date_time # None
             THEN printer_jp_textln(
                      receipt.sale_start_date_time[1] \o <<32, 36012, 58, 32>>
                      \o receipt.staff_id,
                      TextStyleDefault)
             ELSE printer_jp_textln(<<36012, 58, 32>> \o receipt.staff_id,
                                    TextStyleDefault),
             printer_separator>>
        \o Flatten([i \in 1..Len(receipt.items) |->
                        print_receipt_item(receipt.items[i])])
        \o <<printer_separator,
             printer_row_auto_bold(<<21512, 35336, 40, 31246, 36796, 41>>,
                 format_price(receipt.total))>>
        \o print_receipt_tax(receipt)
        \o [i \in 1..Len(receipt.payments) |->
                printer_row_auto(<<12288, 32>> \o receipt.payments[i].method,
                                 format_price(receipt.payments[i].amount))]
        \o When(cash_payment # None /\ change > 0,
                <<printer_row_auto(<<12288, 32, 37347, 12426, 37549>>,
                    format_price(change))>>)
        \o <<printer_separator,
             printer_jp_textln(
                <<24403, 24215, 12399, 20813, 31246, 20107, 26989, 32773,
                    12391, 12354, 12426, 12289, 36969, 26684, 35531, 27714,
                    26360, 12434, 30330, 34892, 12377, 12427, 12371, 12392,
                    12399, 12391, 12365, 12414, 12379, 12435, 12290, 36820,
                    21697, 12539, 36820, 37329, 12399, 33853, 19969, 12539,
                    20081, 19969, 12398, 22580, 21512, 12398, 12415, 21463,
                    12369, 20184, 12369, 12414, 12377, 12290, 36820, 21697,
                    12539, 36820, 37329, 12398, 22580, 21512, 12399, 26412,
                    26126, 32048, 26360, 12434, 28155, 20184, 12375, 12469,
                    12509, 12540, 12488, 12475, 12531, 12479, 12540, 32, 115,
                    117, 112, 112, 111, 114, 116, 45, 112, 111, 115, 64, 109,
                    105, 122, 46, 99, 97, 98, 12395, 12372, 36899, 32097,
                    12367, 12384, 12373, 12356, 12290>>,
                TextStyleDefault),
             printer_textln(<<>>),
             printer_qr_code_center(receipt.receipt_number, Some(6))>>
        \o When(receipt.card_details # None,
                print_receipt_card(receipt, receipt.card_details[1]))
        \o <<printer_feed(3), printer_cut>>

\* u32 multiplication (no product of the reports below reaches 2^32)
u32_mul(a, b) == a * b

print_closing_report(report) ==
    LET diff_str ==
            IF report.difference >= 0
            THEN <<43>> \o format_price(report.difference)
            ELSE <<45>> \o format_price(-report.difference)
        denomination_row(d) ==
            When(d.count > 0,
                 <<printer_row_auto(
                     to_string(d.denomination) \o <<20870, 32, 120, 32>>
                     \o to_string(d.count),
                     format_price(u32_mul(d.denomination, d.count)))>>)
        voucher_row(v) ==
            printer_row_auto(
                IF v.memo # None
                THEN v.voucher_type \o <<32, 40>> \o v.memo[1] \o <<41>>
                ELSE v.voucher_type,
                format_price(v.amount))
    IN  <<printer_init,
          printer_jp_textln_padded(
              <<38281, 23616, 12524, 12509, 12540, 12488>>,
                  center(reverse(double(TextStyleDefault)))),
          printer_textln(<<>>)>>
        \o When(report.event_name # None /\ report.event_name[1] # <<>>,
                <<printer_jp_textln(report.event_name[1],
                                    center(bold(TextStyleDefault)))>>)
        \o <<printer_separator,
             printer_row_auto(<<12524, 12509, 12540, 12488, 73, 68, 58>>,
                 report.id),
             printer_row_auto(<<31471, 26411, 73, 68, 58>>,
                 report.terminal_id),
             printer_row_auto(
                 <<25285, 24403, 32773, 58>>,
                 report.staff_name \o <<32, 40>> \o report.staff_id \o
                     <<41>>),
             printer_row_auto(<<38281, 23616, 26085, 26178, 58>>,
                 report.closed_at),
             printer_separator,
             printer_jp_textln(<<12304, 22770, 19978, 12469, 12510, 12522,
                 12540, 12305>>, bold(TextStyleDefault)),
             printer_row_auto(<<21462, 24341, 20214, 25968, 58>>,
                              to_string(report.transaction_count) \o
                                  <<20214>>),
             printer_row_auto(<<22770, 19978, 21512, 35336, 40, 31246,
                 36796, 41, 58>>,
                              format_price(report.expected_total)),
             printer_separator,
             printer_jp_textln(<<12304, 29694, 37329, 20869, 35379,
                 12305>>, bold(TextStyleDefault))>>
        \o Flatten([i \in 1..Len(report.denominations) |->
                        denomination_row(report.denominations[i])])
        \o <<printer_row_auto_bold(<<29694, 37329, 21512, 35336, 58>>,
                                   format_price(report.cash_total)),
             printer_separator>>
        \o When(report.vouchers # <<>>,
                <<printer_jp_textln(<<12304, 21830, 21697, 21048, 31561,
                    12305>>, bold(TextStyleDefault))>>
                \o [i \in 1..Len(report.vouchers) |->
                        voucher_row(report.vouchers[i])]
                \o <<printer_row_auto_bold(
                        <<21830, 21697, 21048, 31561, 21512, 35336, 58>>,
                            format_price(report.voucher_total)),
                     printer_separator>>)
        \o <<printer_jp_textln(<<12304, 31934, 31639, 12305>>,
            bold(TextStyleDefault)),
             printer_row_auto_bold(<<23455, 26619, 21512, 35336, 58>>,
                                   format_price(report.grand_total)),
             printer_row_auto(<<22770, 19978, 21512, 35336, 58>>,
                              format_price(report.expected_total)),
             printer_row_auto_bold(<<24046, 30064, 58>>, diff_str),
             printer_textln(<<>>),
             printer_separator,
             printer_jp_textln(<<12371, 12398, 12524, 12509, 12540, 12488,
                 12399, 38281, 23616, 20966, 29702, 12398, 35352, 37682,
                 12391, 12377>>,
                               center(TextStyleDefault)),
             printer_feed(3),
             printer_cut>>

\* the printer calls of a print command, in program order
Calls(c) ==
    CASE c.name = "welcome_print" -> welcome_print(c.id)
      [] c.name = "text_print" -> text_print(c.text)
      [] c.name = "print_receipt" -> UntilPanic(print_receipt(c.receipt))
      [] c.name = "print_closing_report" -> print_closing_report(c.report)

PrintCommandNames ==
    {"welcome_print", "text_print", "print_receipt", "print_closing_report"}

\* every call is followed by `?`: the batches of a command are the batches of
\* its calls, one after the other
CommandBatches(c, pw) ==
    LET calls == Calls(c)
    IN  Flatten([k \in 1..Len(calls) |-> Batches(calls[k], pw)])

----------------------------------------------------------------------------
(* Requests of the print commands                                          *)

PaperWidthHints == {None, Some(58), Some(80)}

\* hints that name neither size
OddHints == {Some(0), Some(57), Some(79), Some(81), Some(255)}

Ids == {<<>>, <<84, 49>>}

Goods ==
    [circle_name |-> <<67>>, name |-> <<78>>, jan |-> <<52, 57, 48, 48,
        48, 48, 48, 48, 48, 48, 48, 48, 49>>,
     isbn |-> <<>>, isdn |-> None, jan2 |-> None, is_book |-> FALSE,
     quantity |-> 2, price |-> 1000]

Book ==
    [Goods EXCEPT !.isdn = Some(<<73, 83, 68, 78, 50, 55, 56, 45, 52, 45,
        48, 48, 48, 48, 48, 48, 45, 48, 48, 45, 48>>),
                  !.jan2 = Some(<<49, 57, 50, 48, 48, 57, 52, 48, 48, 49,
                      54, 48, 48>>), !.is_book = TRUE,
                  !.quantity = 1, !.price = 1600]

BookWithoutCode == [Book EXCEPT !.jan2 = None, !.quantity = 0]

\* the book "JAN1" with the secondary code 1920094001600
BookJAN1 == [Book EXCEPT !.isdn = Some(<<74, 65, 78, 49>>)]

\* a book "B1" whose secondary code has 11 characters
BookShortCode ==
    [Book EXCEPT !.jan = <<74, 49>>, !.isdn = Some(<<66, 49>>),
                 !.jan2 = Some(<<49, 57, 50, 48, 48, 57, 52, 48, 48, 49,
                     54>>)]

\* a book whose isdn is empty
BookEmptyIsdn == [Book EXCEPT !.jan = <<74, 50>>, !.isdn = Some(<<>>)]

\* a book without isdn
BookNoIsdn == [Book EXCEPT !.jan = <<74, 51>>, !.isdn = None]

\* an item that is no book and carries the codes of one
GoodsWithCode ==
    [Book EXCEPT !.jan = <<74, 52>>, !.isdn = Some(<<66, 52>>),
                 !.is_book = FALSE]

\* a book "B5" whose secondary code is four hiragana: 4 characters, 12 bytes
BookWideCode ==
    [Book EXCEPT !.jan = <<74, 53>>, !.isdn = Some(<<66, 53>>),
                 !.jan2 = Some(<<12354, 12354, 12354, 12354>>)]

\* a book "B6" whose secondary code "000ααα00" has 8 characters in 11 bytes
BookGreekCode ==
    [Book EXCEPT !.jan = <<74, 54>>, !.isdn = Some(<<66, 54>>),
                 !.jan2 = Some(<<48, 48, 48, 945, 945, 945, 48, 48>>)]

\* a book "B7" whose secondary code "000αα0αα" has 8 characters in 12
\* bytes, with character boundaries at the offsets 3, 7, 8 and 12
BookGreekCode12 ==
    [Book EXCEPT !.jan = <<74, 55>>, !.isdn = Some(<<66, 55>>),
                 !.jan2 = Some(<<48, 48, 48, 945, 945, 48, 945, 945>>)]

Cash(amount) == [method |-> <<29694, 37329>>, amount |-> amount]

CashReceipt ==
    [event_name |-> <<69>>, circle_name |-> None, venue_address |-> None,
     sale_start_date_time |-> None, staff_id |-> <<55>>,
     customer_name |-> None, items |-> <<Goods>>, total |-> 1000,
     payments |-> <<Cash(1000)>>, tax_rate |-> 0, tax_amount |-> 0,
     receipt_number |-> <<82, 49>>, card_details |-> None,
     payment_intent_id |-> None]

NoCardDetails ==
    [brand |-> None, last4 |-> None, exp_month |-> None, exp_year |-> None,
     cardholder_name |-> None, funding |-> None,
     terminal_serial_number |-> None, merchant_name |-> None,
     transaction_type |-> None, payment_type |-> None,
     transaction_at |-> None]

FullCardDetails ==
    [brand |-> Some(<<86, 105, 115, 97>>), last4 |-> Some(<<52, 50, 52, 50>>),
     exp_month |-> Some(3), exp_year |-> Some(2031),
     cardholder_name |-> Some(<<65>>), funding |-> Some(<<99, 114, 101,
         100, 105, 116>>),
     terminal_serial_number |-> Some(<<83, 78, 49>>), merchant_name |->
         Some(<<77>>),
     transaction_type |-> Some(<<114, 101, 102, 117, 110, 100>>),
         payment_type |-> Some(<<19968, 25324>>),
     transaction_at |-> Some(<<50, 48, 50, 53, 45, 49, 50, 45, 49, 54, 84,
         49, 48, 58, 51, 48, 58, 48, 48, 90>>)]

CardReceipt ==
    [CashReceipt EXCEPT
        !.payments = <<[method |-> <<12463, 12524, 12472, 12483, 12488,
            12459, 12540, 12489>>, amount |-> 1000]>>,
        !.card_details = Some(FullCardDetails),
        !.payment_intent_id = Some(<<112, 105, 95, 51, 81>>)]

\* every conditional section of the receipt is present in one receipt and
\* absent from another
Receipts ==
    {CashReceipt, CardReceipt}
    \cup {[CashReceipt EXCEPT !.circle_name = v] : v \in {Some(<<>>),
        Some(<<65>>)}}
    \cup {[CashReceipt EXCEPT !.venue_address = v, !.event_name = e] :
            v \in {Some(<<>>), Some(<<86>>)}, e \in {<<>>, <<69>>}}
    \cup {[CashReceipt EXCEPT !.sale_start_date_time = Some(<<50, 48, 50,
        53, 47, 49, 50, 47, 49, 54>>)]}
    \cup {[CashReceipt EXCEPT !.items = v] :
            v \in {<<>>, <<Book>>, <<Goods, BookWithoutCode>>, <<BookJAN1>>,
                   <<BookShortCode, BookEmptyIsdn, BookNoIsdn,
                     GoodsWithCode, BookGreekCode>>,
                   <<Goods, BookWideCode, Goods>>,
                   <<BookGreekCode12>>,
                   <<[Goods EXCEPT !.quantity = 3]>>}}
    \cup {[CashReceipt EXCEPT !.payments = v] :
            v \in {<<>>, <<Cash(1500)>>, <<Cash(500), Cash(2000)>>,
                   <<Cash(1200), Cash(300)>>, <<Cash(600), Cash(600)>>}}
    \cup {[CashReceipt EXCEPT !.total = 750, !.payments = <<Cash(v)>>] :
            v \in {750, 1000}}
    \cup {[CashReceipt EXCEPT !.payments = v] :
            v \in {<<[method |-> <<29694, 37329, 32>>, amount |-> 2000]>>,
                   <<[method |-> <<67>>, amount |-> 300], Cash(1200)>>}}
    \cup {[CashReceipt EXCEPT !.tax_rate = 10, !.tax_amount = v] :
            v \in {0, 90}}
    \cup {[CardReceipt EXCEPT !.card_details = Some(NoCardDetails),
                              !.payment_intent_id = v] :
            v \in {None, Some(<<112, 105, 95, 51, 81, 88, 121, 90, 48, 49,
                50, 51, 52, 53, 54, 55, 56, 57, 97, 98, 99, 100, 101, 102>>)}}
    \cup {[CardReceipt EXCEPT !.circle_name = Some(<<65>>),
                              !.card_details[1].merchant_name = Some(<<>>)]}

Report ==
    [id |-> <<49>>, terminal_id |-> <<84, 49>>, staff_id |-> <<55>>,
     staff_name |-> <<83>>, event_name |-> None,
     denominations |-> <<[denomination |-> 1000, count |-> 2],
                         [denomination |-> 500, count |-> 0]>>,
     cash_total |-> 2000, vouchers |-> <<>>, voucher_total |-> 0,
     grand_total |-> 2000, expected_total |-> 2000, difference |-> 0,
     transaction_count |-> 3, closed_at |-> <<50, 48, 50, 53, 45, 49, 50,
         45, 49, 54, 32, 49, 56, 58, 48, 48>>]

Reports ==
    {Report}
    \cup {[Report EXCEPT !.event_name = v] : v \in {Some(<<>>), Some(<<69>>)}}
    \cup {[Report EXCEPT !.difference = -500, !.denominations = <<>>]}
    \cup {[Report EXCEPT
             !.vouchers = <<[voucher_type |-> <<86>>, amount |-> 500,
                             memo |-> None],
                            [voucher_type |-> <<86>>, amount |-> 300,
                             memo |-> Some(<<109>>)]>>,
             !.voucher_total = 800, !.grand_total = 2800,
             !.difference = 800]}

----------------------------------------------------------------------------
(* The terminal identity, terminal_auth.rs.  The credentials live outside  *)
(* the program: in two entries of the OS keychain (the private key, the    *)
(* terminal id) and in the fallback file, which holds both.  A call of the *)
(* keychain may fail; the functions below take the set of the calls that   *)
(* fail while they run.  The file is read and removed without failure;     *)
(* writing it may fail.                                                    *)

\* the n-th key SigningKey::generate draws and the n-th Uuid::new_v4
SigningKey(n) == [secret |-> n]
Uuid(n) == [uuid |-> n]

\* SigningKey::verifying_key
verifying_key(key) == [public |-> key.secret]

\* BASE64.encode of the bytes of a key
BASE64_encode(bytes) == [base64 |-> bytes]

\* decode_private_key of a text BASE64_encode has made of a signing key
\* (every private key in the stores has been written by
\* save_private_key_to_keychain: it decodes to 32 bytes)
decode_private_key(base64_key) == base64_key.base64

\* nothing is stored
EmptyStore == [kc_key |-> None, kc_id |-> None, file |-> None]

\* the calls that may fail: Entry::new or get_password / set_password /
\* delete_credential of either keychain entry, and the writing of the file
\* (get_fallback_path, create_dir_all or fs::write)
StatusFaults == {"get_id", "get_key", "delete_key", "delete_id"}
InitializeFaults == {"get_key", "set_key", "write_file", "set_id"}
ClearFaults == {"delete_key", "delete_id"}

load_from_fallback(s) == s.file

save_to_fallback(s, creds, F) ==
    IF "write_file" \in F THEN [store |-> s, ok |-> FALSE]
    ELSE [store |-> [s EXCEPT !.file = Some(creds)], ok |-> TRUE]

clear_fallback(s) == [s EXCEPT !.file = None]

load_private_key_from_keychain(s, F) ==
    IF "get_key" \notin F /\ s.kc_key # None
    THEN Some(decode_private_key(s.kc_key[1]))
    ELSE IF load_from_fallback(s) # None
    THEN Some(decode_private_key(load_from_fallback(s)[1].private_key))
    ELSE None

save_private_key_to_keychain(s, signing_key, terminal_id, F) ==
    LET base64_key == BASE64_encode(signing_key)
        kept == IF "set_key" \in F THEN s
                ELSE [s EXCEPT !.kc_key = Some(base64_key)]
    IN  save_to_fallback(
            kept,
            [terminal_id |-> terminal_id, private_key |-> base64_key], F)

load_terminal_id_from_keychain(s, F) ==
    IF "get_id" \notin F /\ s.kc_id # None THEN Some(s.kc_id[1])
    ELSE IF load_from_fallback(s) # None
    THEN Some(load_from_fallback(s)[1].terminal_id)
    ELSE None

save_terminal_id_to_keychain(s, terminal_id, F) ==
    IF "set_id" \in F THEN s ELSE [s EXCEPT !.kc_id = Some(terminal_id)]

clear_keychain(s, F) ==
    clear_fallback(
        [s EXCEPT !.kc_key = IF "delete_key" \in F THEN @ ELSE None,
                  !.kc_id = IF "delete_id" \in F THEN @ ELSE None])

\* Result values: Ok(v) and Err(e) with e the text the command returns
Ok(v) == [ok |-> TRUE, value |-> v]
Err(e) == [ok |-> FALSE, error |-> e]

\* get_terminal_status keeping the stores in the inconsistent case
get_terminal_status_without_clear(s, F) ==
    LET terminal_id == load_terminal_id_from_keychain(s, F)
        private_key == load_private_key_from_keychain(s, F)
    IN  IF terminal_id # None /\ private_key # None
        THEN [store |-> s,
              result |-> Ok([status |-> "initialized",
                             terminal_id |-> terminal_id,
                             public_key |->
                                 Some(BASE64_encode(
                                     verifying_key(private_key[1]))),
                             error |-> None])]
        ELSE IF terminal_id = None /\ private_key = None
        THEN [store |-> s,
              result |-> Ok([status |-> "uninitialized",
                             terminal_id |-> None, public_key |-> None,
                             error |-> None])]
        ELSE [store |-> s,
              result |-> Ok([status |-> "uninitialized",
                             terminal_id |-> None, public_key |-> None,
                             error |-> Some("Inconsistent state, cleared")])]

get_terminal_status(s, F) ==
    LET terminal_id == load_terminal_id_from_keychain(s, F)
        private_key == load_private_key_from_keychain(s, F)
    IN  IF terminal_id # None /\ private_key # None
        THEN [store |-> s,
              result |-> Ok([status |-> "initialized",
                             terminal_id |-> terminal_id,
                             public_key |->
                                 Some(BASE64_encode(
                                     verifying_key(private_key[1]))),
                             error |-> None])]
        ELSE IF terminal_id = None /\ private_key = None
        THEN [store |-> s,
              result |-> Ok([status |-> "uninitialized",
                             terminal_id |-> None, public_key |-> None,
                             error |-> None])]
        ELSE [store |-> clear_keychain(s, F),
              result |-> Ok([status |-> "uninitialized",
                             terminal_id |-> None, public_key |-> None,
                             error |-> Some("Inconsistent state, cleared")])]

\* the payload of a registration QR code; the device name is passed through
RegistrationQrPayload(terminal_id, public_key, created_at) ==
    [v |-> 1, terminal_id |-> terminal_id, public_key |-> public_key,
     created_at |-> created_at]

\* chrono_now_iso8601: the seconds since the epoch and "Z"
chrono_now_iso8601 == "1700000000Z"

\* the keypair and the terminal id made and stored, n the number of the draw
initialize_terminal_new(s, n, F) ==
    LET signing_key == SigningKey(n)
        terminal_id == Uuid(n)
        saved == save_private_key_to_keychain(s, signing_key, terminal_id, F)
    IN  IF ~saved.ok
        THEN [store |-> saved.store,
              result |-> Err("Keychain error: Failed to write file")]
        ELSE [store |->
                  save_terminal_id_to_keychain(saved.store, terminal_id, F),
              result |->
                  Ok(RegistrationQrPayload(
                         terminal_id,
                         BASE64_encode(verifying_key(signing_key)),
                         chrono_now_iso8601))]

\* initialize_terminal without the test for an existing key
initialize_terminal_unguarded(s, n, F) == initialize_terminal_new(s, n, F)

initialize_terminal(s, n, F) ==
    IF load_private_key_from_keychain(s, F) # None
    THEN [store |-> s,
          result |-> Err("Keychain error: Terminal already initialized")]
    ELSE initialize_terminal_new(s, n, F)

\* generate_registration_qr making a new identity at every call
generate_registration_qr_always_new(s, n, F, G) ==
    LET status == get_terminal_status(s, F)
    IN  initialize_terminal_new(clear_keychain(status.store, {}), n, G)

\* terminal_commands::generate_registration_qr; F are the faults while it
\* reads the status, G the faults while it initializes
generate_registration_qr(s, n, F, G) ==
    LET status == get_terminal_status(s, F)
    IN  IF status.result.value.status = "initialized"
        THEN [store |-> status.store,
              result |->
                  Ok(RegistrationQrPayload(
                         UnwrapOr(status.result.value.terminal_id, ""),
                         UnwrapOr(status.result.value.public_key, ""),
                         ""))]
        ELSE initialize_terminal(status.store, n, G)

\* no terminal command has been called
NoCall == [cmd |-> "none", failed |-> {}, result |-> Ok(<<>>)]

----------------------------------------------------------------------------
(* Transport calls                                                         *)

WriteCall(b, ok) == [call |-> "write", ok |-> ok, data |-> b]
FlushCall(ok) == [call |-> "flush", ok |-> ok, data |-> <<>>]

\* the batches written successfully, oldest first
Written(l) ==
    Flatten([k \in 1..Len(l) |->
                IF l[k].call = "write" /\ l[k].ok THEN <<l[k].data>>
                ELSE <<>>])

----------------------------------------------------------------------------
(* A printer session driven operation by operation                         *)

\* the batches of the running operation or print command
Program ==
    IF op.name \in PrintCommandNames THEN script
    ELSE Batches(op, paper_width)

\* no second request is running
Idle == [pc |-> "closed"]

Init ==
    /\ paper_width = PaperWidthDefault
    /\ dev = DevBaseline
    /\ pc = "closed"
    /\ op = NoOp
    /\ sent = 0
    /\ io = "write"
    /\ log = <<>>
    /\ script = <<>>
    /\ ret = <<>>
    /\ other = Idle
    /\ store = EmptyStore
    /\ made = 0
    /\ term = NoCall

\* JpPrinter::with_paper_width on an opened driver
with_paper_width(pw) ==
    /\ pc = "closed"
    /\ paper_width' = pw
    /\ pc' = "new"
    /\ op' = NoOp
    /\ sent' = 0
    /\ io' = "write"
    /\ log' = <<>>
    /\ UNCHANGED <<apart, dev, script>>

\* entry of an engine operation: nothing has been written yet
Enter(o) ==
    /\ op' = o
    /\ sent' = 0
    /\ io' = "write"
    /\ log' = <<>>
    /\ pc' = "busy"
    /\ UNCHANGED <<apart, paper_width, dev, script>>

\* every caller runs init first (lib.rs:160, 194, 268, 526)
call_init == pc = "new" /\ Enter([name |-> "init"])

call_op == pc = "ready" /\ \E o \in EngineOps : Enter(o)

\* raw returning after the write, without the flush
raw_write_ok_without_flush ==
    /\ pc = "busy" /\ io = "write"
    /\ \E batches \in {Program} :
           /\ sent < Len(batches)
           /\ batches[sent + 1] # PanicMark
           /\ log' = Append(log, WriteCall(batches[sent + 1], TRUE))
           /\ dev' = dev_apply(dev, batches[sent + 1])
    /\ sent' = sent + 1
    /\ UNCHANGED <<apart, paper_width, pc, op, io, script>>

\* raw, first half: driver.write succeeds and the printer takes the batch
raw_write_ok ==
    /\ pc = "busy" /\ io = "write"
    /\ \E batches \in {Program} :
           /\ sent < Len(batches)
           /\ batches[sent + 1] # PanicMark
           /\ log' = Append(log, WriteCall(batches[sent + 1], TRUE))
           /\ dev' = dev_apply(dev, batches[sent + 1])
    /\ io' = "flush"
    /\ UNCHANGED <<apart, paper_width, pc, op, sent, script>>

\* a failed write whose error is dropped: raw goes on to the flush
raw_write_err_ignored ==
    /\ pc = "busy" /\ io = "write"
    /\ \E batches \in {Program} :
           /\ sent < Len(batches)
           /\ batches[sent + 1] # PanicMark
           /\ log' = Append(log, WriteCall(batches[sent + 1], FALSE))
           /\ dev' \in {dev, dev_apply(dev, batches[sent + 1])}
    /\ io' = "flush"
    /\ UNCHANGED <<apart, paper_width, pc, op, sent, script>>

\* driver.write fails: `?` returns the error; the batch may or may not have
\* reached the printer
raw_write_err ==
    /\ pc = "busy" /\ io = "write"
    /\ \E batches \in {Program} :
           /\ sent < Len(batches)
           /\ batches[sent + 1] # PanicMark
           /\ log' = Append(log, WriteCall(batches[sent + 1], FALSE))
           /\ dev' \in {dev, dev_apply(dev, batches[sent + 1])}
    /\ pc' = "failed"
    /\ UNCHANGED <<apart, paper_width, op, sent, io, script>>

\* raw, second half: driver.flush succeeds and raw returns Ok
raw_flush_ok ==
    /\ pc = "busy" /\ io = "flush"
    /\ log' = Append(log, FlushCall(TRUE))
    /\ sent' = sent + 1
    /\ io' = "write"
    /\ UNCHANGED <<apart, paper_width, dev, pc, op, script>>

\* driver.flush fails: `?` returns the error
raw_flush_err ==
    /\ pc = "busy" /\ io = "flush"
    /\ log' = Append(log, FlushCall(FALSE))
    /\ pc' = "failed"
    /\ UNCHANGED <<apart, paper_width, dev, op, sent, io, script>>

\* the command panics between two printer calls: the stack unwinds, the
\* printer and its driver are dropped, nothing more is written
panic ==
    /\ pc = "busy" /\ io = "write"
    /\ sent < Len(Program)
    /\ Program[sent + 1] = PanicMark
    /\ pc' = "panicked"
    /\ UNCHANGED <<apart, paper_width, dev, op, sent, io, log, script>>

\* the operation has passed all its batches to raw: it is about to return
Returning == pc = "busy" /\ io = "write" /\ sent = Len(Program)

\* the operation returns Ok(()) to the caller of the engine
return_ok ==
    /\ Returning
    /\ pc' = "ready"
    /\ op' = NoOp
    /\ sent' = 0
    /\ log' = <<>>
    /\ script' = <<>>
    /\ UNCHANGED <<apart, paper_width, dev, io>>

\* the printer value goes out of scope at the end of the command
drop ==
    /\ pc \in {"ready", "failed", "panicked"}
    /\ pc' = "closed"
    /\ op' = NoOp
    /\ sent' = 0
    /\ io' = "write"
    /\ log' = <<>>
    /\ script' = <<>>
    /\ UNCHANGED <<apart, paper_width, dev>>

Next ==
    \/ \E pw \in PaperWidth : with_paper_width(pw)
    \/ call_init
    \/ call_op
    \/ raw_write_ok
    \/ raw_write_err
    \/ raw_flush_ok
    \/ raw_flush_err
    \/ return_ok
    \/ drop

Spec == Init /\ [][Next]_vars

----------------------------------------------------------------------------
(* The print commands, each on a printer of its own                        *)

\* a command opens the driver, chooses the paper and starts printing
Invoke(c) ==
    /\ pc = "closed"
    /\ paper_width' = parse_paper_width(c.paper_width)
    /\ op' = c
    /\ sent' = 0
    /\ io' = "write"
    /\ log' = <<>>
    /\ pc' = "busy"
    /\ script' =
         CommandBatches(c, parse_paper_width(c.paper_width))
    /\ UNCHANGED <<apart, dev>>

invoke_welcome_print ==
    \E id \in Ids, w \in PaperWidthHints \cup OddHints :
        Invoke([name |-> "welcome_print", id |-> id, paper_width |-> w])

invoke_text_print ==
    \E t \in Texts, w \in PaperWidthHints \cup OddHints :
        Invoke([name |-> "text_print", text |-> t, paper_width |-> w])

invoke_print_receipt ==
    \E r \in Receipts, w \in PaperWidthHints :
        Invoke([name |-> "print_receipt", receipt |-> r, paper_width |-> w])

invoke_print_closing_report ==
    \E r \in Reports, w \in PaperWidthHints :
        Invoke([name |-> "print_closing_report", report |-> r,
                paper_width |-> w])

PrintNext ==
    \/ invoke_welcome_print
    \/ invoke_text_print
    \/ invoke_print_receipt
    \/ invoke_print_closing_report
    \/ raw_write_ok
    \/ raw_write_err
    \/ raw_flush_ok
    \/ raw_flush_err
    \/ panic
    \/ return_ok
    \/ drop

PrintSpec == Init /\ [][PrintNext]_vars

----------------------------------------------------------------------------
(* Two print requests against one device.  Each request opens its own      *)
(* driver and owns its printer value; nothing in lib.rs or jp_escpos.rs    *)
(* is shared between them or locked, so their raw calls are free to        *)
(* alternate.  The first request is text_print, the second welcome_print.  *)

\* the first request: text_print called with text t
invoke_first ==
    \E t \in {<<65>>, <<12354>>} :
        Invoke([name |-> "text_print", text |-> t, paper_width |-> None])

\* the second request: welcome_print is called while the first may be running
other_invoke ==
    /\ other.pc = "closed"
    /\ LET c == [name |-> "welcome_print", id |-> <<84, 49>>,
                 paper_width |-> None]
       IN  other' = [pc |-> "busy", op |-> c, sent |-> 0, io |-> "write",
                     log |-> <<>>,
                     script |-> CommandBatches(
                                    c, parse_paper_width(c.paper_width))]
    /\ UNCHANGED <<paper_width, dev, pc, op, sent, io, log, script, ret,
                   terminal>>

\* raw of the second request flushing without going on to the next batch
other_raw_flush_ok_repeating ==
    /\ other.pc = "busy" /\ other.io = "flush"
    /\ other' = [other EXCEPT !.io = "write"]
    /\ UNCHANGED <<paper_width, dev, pc, op, sent, io, log, script, ret,
                   terminal>>

\* raw of the second request, first half: its batch reaches the printer
other_raw_write_ok ==
    /\ other.pc = "busy" /\ other.io = "write"
    /\ other.sent < Len(other.script)
    /\ other' = [other EXCEPT
                    !.io = "flush",
                    !.log = Append(@, other.script[other.sent + 1])]
    /\ dev' = dev_apply(dev, other.script[other.sent + 1])
    /\ UNCHANGED <<paper_width, pc, op, sent, io, log, script, ret, terminal>>

\* raw of the second request, second half
other_raw_flush_ok ==
    /\ other.pc = "busy" /\ other.io = "flush"
    /\ other' = [other EXCEPT !.io = "write", !.sent = @ + 1]
    /\ UNCHANGED <<paper_width, dev, pc, op, sent, io, log, script, ret,
                   terminal>>

\* the second request returns Ok(()) and its printer is dropped
other_return ==
    /\ other.pc = "busy" /\ other.io = "write"
    /\ other.sent = Len(other.script)
    /\ other' = Idle
    /\ UNCHANGED <<paper_width, dev, pc, op, sent, io, log, script, ret,
                   terminal>>

ConcurrentNext ==
    \/ invoke_first
    \/ raw_write_ok
    \/ raw_flush_ok
    \/ return_ok
    \/ drop
    \/ other_invoke
    \/ other_raw_write_ok
    \/ other_raw_flush_ok
    \/ other_return

ConcurrentSpec == Init /\ [][ConcurrentNext]_vars

----------------------------------------------------------------------------
(* The formatting functions of lib.rs, called on their own                 *)

\* amounts: the small ones, the ones around each power of ten, and the
\* largest one the checker's integers hold
Amounts ==
    0..MaxSmallAmount
    \cup {99, 100, 101, 999, 1000, 1001, 1205, 9999, 10000, 12345, 99999,
          100000, 999999, 1000000, 1234567, 9999999, 10000000, 99999999,
          100000000, 123456789, 999999999, 1000000000, 2147483647}

\* "2025-12-16T10:30:00.000Z"
IsoTimestamp ==
    <<50, 48, 50, 53, 45, 49, 50, 45, 49, 54, 84, 49, 48, 58, 51, 48, 58,
      48, 48, 46, 48, 48, 48, 90>>

\* every prefix of the ISO timestamp, a text of 16 '-', and texts that are
\* not ASCII: eight hiragana, "あああ-T10:30" and "2025-12-16T10:3あ"
Timestamps ==
    {SubSeq(IsoTimestamp, 1, n) : n \in 0..Len(IsoTimestamp)}
    \cup {Repeat(45, 16),
          <<50, 48, 50, 53, 45, 49, 50, 45, 49, 54, 32, 49, 48, 58, 51, 48>>,
          Repeat(12354, 8),
          <<12354, 12354, 12354, 45, 84, 49, 48, 58, 51, 48>>,
          SubSeq(IsoTimestamp, 1, 15) \o <<12354>>}

\* the function returns v to its caller
Return(c, v) ==
    /\ op' = c
    /\ ret' = v
    /\ pc' = "returned"
    /\ UNCHANGED <<paper_width, dev, sent, io, log, script, other, terminal>>

\* the function panics
Unwind(c) ==
    /\ op' = c
    /\ ret' = <<>>
    /\ pc' = "panicked"
    /\ UNCHANGED <<paper_width, dev, sent, io, log, script, other, terminal>>

apply_to_fullwidth_number ==
    \E n \in Amounts :
        Return([name |-> "to_fullwidth_number", num |-> n],
               to_fullwidth_number(n))

apply_format_price ==
    \E n \in Amounts :
        Return([name |-> "format_price", price |-> n], format_price(n))

apply_format_transaction_datetime ==
    \E t \in Timestamps :
        LET c == [name |-> "format_transaction_datetime",
                  iso_datetime |-> t]
        IN  IF format_transaction_datetime_panics(t) THEN Unwind(c)
            ELSE Return(c, format_transaction_datetime(t))

FormatNext ==
    \/ apply_to_fullwidth_number
    \/ apply_format_price
    \/ apply_format_transaction_datetime

FormatSpec == Init /\ [][FormatNext]_vars

----------------------------------------------------------------------------
(* The terminal commands of lib.rs, each called on the stores as they are, *)
(* with any of the calls of the keychain and of the file failing           *)

\* the variables of the printer
printing == <<paper_width, dev, pc, op, sent, io, log, script, ret, other>>

\* the sets of at most MaxFaults calls among S that fail during a command
FaultSets(S) == {F \in SUBSET S : Cardinality(F) <= MaxFaults}

\* the call has drawn a keypair and a terminal id
Drew(r) ==
    IF r.result.ok THEN r.result.value.created_at = chrono_now_iso8601
    ELSE r.result.error = "Keychain error: Failed to write file"

\* the command returns r.result and leaves the stores as r.store
Called(cmd, F, r, drew) ==
    /\ drew => made < MaxIdentities
    /\ store' = r.store
    /\ made' = IF drew THEN made + 1 ELSE made
    /\ term' = [cmd |-> cmd, failed |-> F, result |-> r.result]
    /\ UNCHANGED printing

invoke_get_terminal_status ==
    \E F \in FaultSets(StatusFaults) :
        Called("get_terminal_status", F, get_terminal_status(store, F),
               FALSE)

invoke_initialize_terminal ==
    \E F \in FaultSets(InitializeFaults) :
        LET r == initialize_terminal(store, made + 1, F)
        IN  Called("initialize_terminal", F, r, Drew(r))

invoke_generate_registration_qr ==
    \E F \in FaultSets(StatusFaults), G \in FaultSets(InitializeFaults) :
        LET r == generate_registration_qr(store, made + 1, F, G)
        IN  Called("generate_registration_qr", F \cup G, r, Drew(r))

invoke_clear_terminal_keychain ==
    \E F \in FaultSets(ClearFaults) :
        Called("clear_terminal_keychain", F,
               [store |-> clear_keychain(store, F), result |-> Ok(<<>>)],
               FALSE)

TerminalNext ==
    \/ invoke_get_terminal_status
    \/ invoke_initialize_terminal
    \/ invoke_generate_registration_qr
    \/ invoke_clear_terminal_keychain

TerminalSpec == Init /\ [][TerminalNext]_vars

----------------------------------------------------------------------------
(* Properties of the engine operations                                     *)

StyledOpNames ==
    {"jp_text", "jp_textln", "text", "textln", "row", "row_auto",
     "separator", "double_separator", "line", "double_line",
     "jp_textln_padded", "qr_code_center", "barcode_code128_center"}

\* C1: when a text-emitting or centered-symbol operation has written all
\* its batches and is about to return Ok, and at every boundary between
\* operations of a session, the printer is at the baseline: alignment
\* Left, bold, underline and reverse off, the combined double size and the
\* double-byte size flags cleared, double-byte mode off.
C1_BaselineAfterOperation ==
    /\ (Returning /\ op.name \in StyledOpNames) => dev = DevBaseline
    /\ pc = "ready" => dev = DevBaseline

\* a fully styled jp_text has run to its end on a printer back at baseline
C1_Witness ==
    /\ Returning
    /\ op.name = "jp_text"
    /\ op.style.bold /\ op.style.underline /\ op.style.reverse
    /\ op.style.double_width /\ op.style.double_height
    /\ op.style.align = "Right"
    /\ TXT_DOUBLE_SIZE \in {log[k].data : k \in 1..Len(log)}
    /\ dev = DevBaseline

IsTextOp == op.name \in {"jp_text", "jp_textln"}

ExactlyOneSize(style) == style.double_width # style.double_height

IsKanjiSizeCmd(b) == IsCmd(b, JP_KANJI_SIZE_CMD, 3)

\* batch k of w lies after a mode-on with no mode-off in between
InKanjiWindow(w, k) ==
    \E i \in 1..(k - 1) :
        /\ w[i] = JP_KANJI_MODE_ON
        /\ \A m \in (i + 1)..k : w[m] # JP_KANJI_MODE_OFF

Occurrences(w, b) == Cardinality({k \in 1..Len(w) : w[k] = b})

\* C2: in a jp_text call every batch written while double-byte mode is on
\* is the encoded text or a double-byte size-flag command, and the
\* completed call has the window mode-on, text, mode-off, with the size-flag
\* pair around the text exactly when one of double width / double height
\* is requested.
C2_KanjiWindow ==
    IsTextOp =>
        LET w == Written(log)
            enc == encode_shift_jis(op.txt)
        IN  /\ \A k \in 1..Len(w) :
                  InKanjiWindow(w, k) =>
                      /\ w[k] = enc \/ IsKanjiSizeCmd(w[k])
                      /\ IsKanjiSizeCmd(w[k]) => ExactlyOneSize(op.style)
            /\ Returning =>
                  /\ Occurrences(w, JP_KANJI_MODE_ON) = 1
                  /\ Occurrences(w, JP_KANJI_MODE_OFF) = 1
                  /\ \E i \in 1..Len(w) :
                        /\ w[i] = JP_KANJI_MODE_ON
                        /\ IF ExactlyOneSize(op.style)
                           THEN /\ IsKanjiSizeCmd(w[i + 1])
                                /\ w[i + 2] = enc
                                /\ IsKanjiSizeCmd(w[i + 3])
                                /\ w[i + 4] = JP_KANJI_MODE_OFF
                           ELSE /\ w[i + 1] = enc
                                /\ w[i + 2] = JP_KANJI_MODE_OFF

\* a double-width jp_text has completed: its window held the flag pair
C2_Witness ==
    /\ Returning
    /\ op.name = "jp_text"
    /\ op.style.double_width /\ ~op.style.double_height
    /\ op.txt # <<>>
    /\ Occurrences(Written(log), encode_shift_jis(op.txt)) = 1

IsQrStore(b) ==
    /\ Len(b) >= 8
    /\ SubSeq(b, 1, 3) = <<\H1D, \H28, \H6B>>
    /\ SubSeq(b, 6, 8) = <<\H31, \HB4, \H30>>

\* C3: the two length bytes pL, pH of every store-data command handed to
\* the transport satisfy pL + 256 * pH = N + 3, N being the number of
\* payload bytes that follow the three header bytes.
C3_QrStoreLength ==
    \A k \in 1..Len(log) :
        (log[k].call = "write" /\ IsQrStore(log[k].data)) =>
            LET b == log[k].data
                N == Len(b) - 8
            IN  b[4] + 256 * b[5] = N + 3

IsBarcodePrint(b) ==
    Len(b) >= 4 /\ SubSeq(b, 1, 3) = <<\H1D, \H6B, \H49>>

\* C4: the length prefix n of every barcode print command handed to the
\* transport equals the number of payload bytes that follow it.
C4_BarcodeLength ==
    \A k \in 1..Len(log) :
        (log[k].call = "write" /\ IsBarcodePrint(log[k].data)) =>
            LET b == log[k].data IN b[4] = Len(b) - 4

IsQrOp == op.name \in {"qr_code", "qr_code_center"}

\* the batches of the QR sub-protocol among w: qr_code_center wraps them
\* in one alignment command before and one after
QrPart(w) ==
    IF op.name # "qr_code_center" THEN w
    ELSE SubSeq(w, 2, IF Len(w) > 6 THEN 6 ELSE Len(w))

\* C5: the batches a qr_code call has written are, position by position,
\* model select (model 2), cell-size select, error-correction level M,
\* store data, print trigger; a successful call has written exactly these
\* five, so that the print trigger never precedes the store command.
C5_QrOrder ==
    IsQrOp =>
        LET w == Written(log)
            q == QrPart(w)
        IN  /\ Len(q) >= 1 => q[1] = QR_MODEL_2
            /\ Len(q) >= 2 => IsCmd(q[2], QR_SIZE_PREFIX, 8)
            /\ Len(q) >= 3 => q[3] = QR_ERROR_M
            /\ Len(q) >= 4 => IsQrStore(q[4])
            /\ Len(q) >= 5 => q[5] = QR_PRINT
            /\ Len(q) <= 5
            /\ Returning =>
                  /\ Len(q) = 5
                  /\ Occurrences(w, QR_PRINT) = 1
                  /\ Cardinality({k \in 1..Len(w) : IsQrStore(w[k])}) = 1
                  /\ op.name # "qr_code_center" => Len(w) = 5
                  /\ op.name = "qr_code_center" =>
                        /\ Len(w) = 7
                        /\ w[1] = TXT_ALIGN_CT
                        /\ w[7] = TXT_ALIGN_LT

\* a QR code with a non-empty payload has been stored and printed
C5_Witness ==
    /\ Returning
    /\ op.name = "qr_code"
    /\ op.data # <<>>
    /\ Len(Written(log)) = 5
    /\ Last(Written(log)) = QR_PRINT

\* w matches pattern p: as long as p, batch k one of the batches p[k]
Matches(w, p) == Len(w) = Len(p) /\ \A k \in 1..Len(p) : w[k] \in p[k]

Opt(cond, p) == IF cond THEN p ELSE <<>>

AlignCmd(a) ==
    IF a = "Center" THEN TXT_ALIGN_CT
    ELSE IF a = "Right" THEN TXT_ALIGN_RT ELSE TXT_ALIGN_LT

KanjiSizeSet == {JP_KANJI_SIZE_CMD \o <<n>> : n \in 1..255}

\* the order of batches the text operations are to follow
JpTextPattern(txt, style) ==
    LET both == style.double_width /\ style.double_height
        one == ExactlyOneSize(style)
    IN  << {AlignCmd(style.align)},
           {IF style.bold THEN TXT_BOLD_ON ELSE TXT_BOLD_OFF},
           {IF style.underline THEN TXT_UNDERL_ON ELSE TXT_UNDERL_OFF},
           {IF style.underline THEN JP_UNDERL_ON ELSE JP_UNDERL_OFF},
           {IF style.reverse THEN TXT_REVERSE_ON ELSE TXT_REVERSE_OFF} >>
        \o Opt(both, << {TXT_DOUBLE_SIZE} >>)
        \o << {JP_KANJI_MODE_ON} >>
        \o Opt(one, << KanjiSizeSet >>)
        \o << {encode_shift_jis(txt)} >>
        \o Opt(one, << {JP_KANJI_SIZE_CMD \o <<0>>} >>)
        \o << {JP_KANJI_MODE_OFF} >>
        \o Opt(both, << {TXT_NORMAL_SIZE} >>)
        \o << {TXT_BOLD_OFF}, {TXT_UNDERL_OFF}, {JP_UNDERL_OFF},
              {TXT_REVERSE_OFF}, {TXT_ALIGN_LT} >>

\* C6: a successful jp_text has written: alignment of the style; bold,
\* underline, reverse settings; combined double size on (both sizes
\* requested); mode on; [size flag set]; text; [size flag clear]; mode
\* off; combined double size off (if turned on); bold, underline, reverse
\* off; alignment Left.  jp_textln has written the same and then one line
\* feed as its last batch.
C6_JpTextOrder ==
    (Returning /\ IsTextOp) =>
        Matches(Written(log),
                JpTextPattern(op.txt, op.style)
                \o Opt(op.name = "jp_textln", << {CTL_LF} >>))

\* a bold, centred, double-size jp_textln has completed with its line feed
C6_Witness ==
    /\ Returning
    /\ op.name = "jp_textln"
    /\ op.style.bold /\ op.style.double_width /\ op.style.double_height
    /\ op.style.align = "Center"
    /\ op.txt # <<>>
    /\ Last(Written(log)) = CTL_LF

IsCombinedSizeCmd(b) == IsCmd(b, <<\H1b, \H21>>, 3)

IndexOf(w, b) == CHOOSE k \in 1..Len(w) : w[k] = b

\* C7: the size commands of a completed jp_text, by (double_width,
\* double_height): both -> the combined command on before the mode window
\* and off after it, no size-flag command; exactly one -> no combined
\* command, the size-flag command with the one matching bit (0x04 width,
\* 0x08 height) right before the text and with 0x00 right after it;
\* neither -> no size command of either kind.
C7_SizeSelection ==
    (Returning /\ IsTextOp) =>
        LET w == Written(log)
            on == IndexOf(w, JP_KANJI_MODE_ON)
            off == IndexOf(w, JP_KANJI_MODE_OFF)
            dw == op.style.double_width
            dh == op.style.double_height
            combined == {k \in 1..Len(w) : IsCombinedSizeCmd(w[k])}
            flags == {k \in 1..Len(w) : IsKanjiSizeCmd(w[k])}
        IN  /\ (dw /\ dh) =>
                  /\ flags = {}
                  /\ \E a, b \in combined :
                        /\ combined = {a, b}
                        /\ a < on /\ w[a] = TXT_DOUBLE_SIZE
                        /\ b > off /\ w[b] = TXT_NORMAL_SIZE
            /\ (dw # dh) =>
                  /\ combined = {}
                  /\ flags = {on + 1, on + 3}
                  /\ w[on + 1] = JP_KANJI_SIZE_CMD \o <<IF dw THEN 4 ELSE 8>>
                  /\ w[on + 2] = encode_shift_jis(op.txt)
                  /\ w[on + 3] = JP_KANJI_SIZE_CMD \o <<0>>
                  /\ off = on + 4
            /\ (~dw /\ ~dh) => combined = {} /\ flags = {}

\* a double-height-only jp_text has completed with the 0x08 flag written
C7_Witness ==
    /\ Returning
    /\ op.name = "jp_text"
    /\ ~op.style.double_width /\ op.style.double_height
    /\ JP_KANJI_SIZE_CMD \o <<8>> \in {log[k].data : k \in 1..Len(log)}

\* C9: the transport calls of an operation alternate write, flush, write,
\* flush, ...: a call at an odd position is a write, a call at an even
\* position is the flush of the successful write before it, and an
\* operation that continues or returns has flushed every write.
C9_WriteThenFlush ==
    /\ \A k \in 1..Len(log) :
          IF k % 2 = 1 THEN log[k].call = "write"
          ELSE log[k].call = "flush" /\ log[k - 1].ok
    /\ \A k \in 1..(Len(log) - 1) :
          (log[k].call = "write" /\ log[k].ok) => log[k + 1].call = "flush"
    /\ (pc = "busy" /\ io = "write") => Len(log) % 2 = 0
    /\ (pc = "busy" /\ io = "flush") =>
          Len(log) % 2 = 1 /\ Last(log).call = "write" /\ Last(log).ok

\* an operation of several batches has returned after as many flushes
C9_Witness ==
    /\ Returning
    /\ Len(log) >= 6
    /\ Cardinality({k \in 1..Len(log) : log[k].call = "flush"})
         = Cardinality({k \in 1..Len(log) : log[k].call = "write"})

----------------------------------------------------------------------------
(* Properties of the print commands                                        *)

IsPrintCommand == op.name \in PrintCommandNames

\* C8: a failed write or flush ends the request's I/O.  The log of a print
\* request holds no call after a failed one (a failed write is not followed
\* by its flush, nothing is retried, no restore, feed or cut follows), the
\* request is failed exactly when its last call failed, and the calls are
\* write, flush, write, flush, ... where the j-th write carries the j-th
\* batch of the command: every batch is written at most once, in program
\* order.
C8_FailFast ==
    IsPrintCommand =>
        /\ \A k \in 1..(Len(log) - 1) : log[k].ok
        /\ (pc = "failed") = (log # <<>> /\ ~Last(log).ok)
        /\ \A k \in 1..Len(log) :
              log[k].call = (IF k % 2 = 1 THEN "write" ELSE "flush")
        /\ LET writes == (Len(log) + 1) \div 2
               batches == Program
           IN  /\ writes <= Len(batches)
               /\ [j \in 1..writes |-> log[2 * j - 1].data]
                    = SubSeq(batches, 1, writes)

\* a receipt fails in the middle: batches were written and flushed, one call
\* then failed, and batches of the receipt remain unsent
C8_Witness ==
    /\ pc = "failed"
    /\ op.name = "print_receipt"
    /\ Len(log) >= 12
    /\ ~Last(log).ok
    /\ sent < Len(Program) - 4

\* the bytes written by a request, in order
StreamBytes == Flatten(Written(log))

\* the number of places of the byte stream s where the bytes b stand
CountIn(s, b) ==
    Cardinality({k \in 1..(Len(s) - Len(b) + 1) :
                    SubSeq(s, k, k + Len(b) - 1) = b})

\* C10: when a print command is about to return success, the bytes it wrote
\* begin with ESC @, ESC t 2, FS C 1 and GS W with the dot width of the
\* paper chosen from the hint (576 for Some(80), 384 otherwise), and end with
\* three LF and the full cut GS V 0, which stands nowhere else in the
\* stream.
C10_InitFirstCutLast ==
    (IsPrintCommand /\ pc = "busy" /\ io = "write" /\ Returning) =>
        LET s == StreamBytes
            head == <<27, 64, 27, 116, 2, 28, 67, 1, 29, 87>>
                    \o (IF op.paper_width = Some(80) THEN <<64, 2>>
                        ELSE <<128, 1>>)
            tail == <<10, 10, 10, 29, 86, 0>>
        IN  /\ Len(s) >= Len(head) + Len(tail)
            /\ SubSeq(s, 1, Len(head)) = head
            /\ SubSeq(s, Len(s) - Len(tail) + 1, Len(s)) = tail
            /\ CountIn(s, <<29, 86, 0>>) = 1

\* a receipt with items and a payment has been printed completely on 80 mm
\* paper
C10_Witness ==
    /\ IsPrintCommand /\ pc = "busy" /\ io = "write" /\ Returning
    /\ op.name = "print_receipt"
    /\ op.paper_width = Some(80)
    /\ op.receipt.items # <<>>
    /\ CountIn(StreamBytes, <<29, 86, 0>>) = 1

----------------------------------------------------------------------------
(* Properties of the layout operations                                     *)

\* the display width of a text as the width model states it: one cell for
\* each character up to U+007F, two for every other character
DisplayWidth(s) ==
    Cardinality({i \in 1..Len(s) : s[i] <= 127})
    + 2 * Cardinality({i \in 1..Len(s) : s[i] > 127})

\* the batch that holds the text of a text call written in style
TextBatch(w, style) ==
    w[IndexOf(w, JP_KANJI_MODE_ON)
      + (IF ExactlyOneSize(style) THEN 2 ELSE 1)]

RowAB == [name |-> "row", left |-> <<65>>, right |-> <<66>>, width |-> 10]

\* C11 as stated: row("A", "B", 10) has written the text "A", seven spaces,
\* "B".
C11_RowExample ==
    (Returning /\ op = RowAB) =>
        TextBatch(Written(log), TextStyleDefault)
          = <<65, 32, 32, 32, 32, 32, 32, 32, 66>>

\* C11 amended: row("A", "B", 10) has written the text "A", eight spaces
\* (10 - 1 - 1), "B".
C11_RowExampleEightSpaces ==
    (Returning /\ op = RowAB) =>
        TextBatch(Written(log), TextStyleDefault)
          = <<65, 32, 32, 32, 32, 32, 32, 32, 32, 66>>

\* row("A", "B", 10) has completed with its line feed
C11_Witness ==
    /\ Returning
    /\ op = RowAB
    /\ Last(Written(log)) = CTL_LF

IsRowOp == op.name \in {"row", "row_auto"}

\* the width a row fills: the argument of row, the narrow column count of
\* the paper for row_auto
RowWidth ==
    IF op.name = "row" THEN op.width
    ELSE IF paper_width = "Mm80" THEN 48 ELSE 32

\* C12: a completed row has written one text line in the default style whose
\* text is left, then max(0, width - displayWidth(left) -
\* displayWidth(right)) spaces, then right, whole and in this order; the
\* line feed is the last batch, the only one, and no line feed stands
\* inside the text.
C12_RowLayout ==
    (Returning /\ IsRowOp) =>
        LET w == Written(log)
            fill == RowWidth - DisplayWidth(op.left)
                    - DisplayWidth(op.right)
            spaces == IF fill > 0 THEN fill ELSE 0
            content == op.left \o Repeat(32, spaces) \o op.right
        IN  /\ Matches(w, JpTextPattern(content, TextStyleDefault)
                          \o << {CTL_LF} >>)
            /\ Occurrences(w, CTL_LF) = 1
            /\ \A i \in 1..Len(TextBatch(w, TextStyleDefault)) :
                   TextBatch(w, TextStyleDefault)[i] # 10

\* row("ABCDEFGHIJ", "K", 10), whose content alone is wider than the row,
\* has completed with all eleven characters and no space
C12_Witness ==
    /\ Returning
    /\ op.name = "row"
    /\ op.width = 10
    /\ DisplayWidth(op.left) + DisplayWidth(op.right) > 10
    /\ TextBatch(Written(log), TextStyleDefault)
         = <<65, 66, 67, 68, 69, 70, 71, 72, 73, 74, 75>>

IsPaddedOp == op.name = "jp_textln_padded"

\* the number of spaces at the start and at the end of the bytes b
LeadingSpaces(b) ==
    CHOOSE n \in 0..Len(b) :
        /\ \A i \in 1..n : b[i] = 32
        /\ n = Len(b) \/ b[n + 1] # 32

TrailingSpaces(b) ==
    CHOOSE n \in 0..Len(b) :
        /\ \A i \in 1..n : b[Len(b) + 1 - i] = 32
        /\ n = Len(b) \/ b[Len(b) - n] # 32

\* C13: a completed jp_textln_padded of a non-empty text has written the
\* text between L leading and R trailing spaces where, with P = L + R the
\* padding: Center has L = floor(P / 2) and R = P - L, Right has L = P and
\* R = 0, Left has L = 0 and R = P.  (The texts drawn neither begin nor end
\* with a space.)
C13_PaddingSplit ==
    (Returning /\ IsPaddedOp /\ op.txt # <<>>) =>
        LET b == TextBatch(Written(log), op.style)
            L == LeadingSpaces(b)
            R == TrailingSpaces(b)
            P == L + R
        IN  /\ b = Repeat(32, L) \o encode_shift_jis(op.txt) \o Repeat(32, R)
            /\ op.style.align = "Center" => L = P \div 2 /\ R = P - L
            /\ op.style.align = "Right" => L = P /\ R = 0
            /\ op.style.align = "Left" => L = 0 /\ R = P

\* a centred text has been padded by an odd number of spaces and the right
\* side got one more than the left
C13_Witness ==
    /\ Returning /\ IsPaddedOp /\ op.txt # <<>>
    /\ op.style.align = "Center"
    /\ TrailingSpaces(TextBatch(Written(log), op.style))
         = LeadingSpaces(TextBatch(Written(log), op.style)) + 1

\* the column count the padding fills
PaddingTarget ==
    IF op.style.double_width
    THEN (IF paper_width = "Mm80" THEN 24 ELSE 16)
    ELSE (IF paper_width = "Mm80" THEN 48 ELSE 32)

\* C14: a completed jp_textln_padded has padded to the wide column count of
\* the paper (16 / 24) when double width is requested and to the narrow one
\* (32 / 48) otherwise: the display width of the padded text is the target
\* when the text fits, the text is written without a space when it is
\* wider; and what is written is the text line of the padded text in the
\* style of the call with the alignment Left.
C14_PaddingTarget ==
    (Returning /\ IsPaddedOp) =>
        LET w == Written(log)
            b == TextBatch(w, op.style)
            pad == Len(b) - Len(encode_shift_jis(op.txt))
        IN  /\ pad >= 0
            /\ DisplayWidth(op.txt) <= PaddingTarget
                  => pad + DisplayWidth(op.txt) = PaddingTarget
            /\ DisplayWidth(op.txt) > PaddingTarget => pad = 0
            /\ \E l \in 0..pad :
                  Matches(w,
                          JpTextPattern(
                              Repeat(32, l) \o op.txt \o Repeat(32, pad - l),
                              [op.style EXCEPT !.align = "Left"])
                          \o << {CTL_LF} >>)

\* nine wide characters (18 cells) have been padded in double width to the
\* 24 wide columns of 80 mm paper
C14_Witness ==
    /\ Returning /\ IsPaddedOp
    /\ op.style.double_width
    /\ paper_width = "Mm80"
    /\ DisplayWidth(op.txt) = 18
    /\ Len(TextBatch(Written(log), op.style)) = 18 + 6

\* the texts whose width the running operation computes
MeasuredTexts ==
    IF IsRowOp THEN {op.left, op.right}
    ELSE IF IsPaddedOp THEN {op.txt}
    ELSE {}

\* C15: for every text the running operation measures, print_width is
\* defined and is the number of characters up to U+007F plus twice the
\* number of the other characters; so it is the character count of a text
\* of such characters only, twice the character count of a text without
\* any, and 0 for the empty text.
C15_WidthModel ==
    \A t \in MeasuredTexts :
        LET narrow == {i \in 1..Len(t) : t[i] \in 0..127}
        IN  /\ print_width(t)
                 = Cardinality(narrow) + 2 * (Len(t) - Cardinality(narrow))
            /\ Cardinality(narrow) = Len(t) => print_width(t) = Len(t)
            /\ narrow = {} => print_width(t) = 2 * Len(t)
            /\ t = <<>> => print_width(t) = 0

\* a row of U+0000 U+007F and U+0080 U+00FF has completed: the first two
\* were counted as one cell each, the last two as two cells each, and the
\* row of width 10 got 10 - 2 - 4 spaces
C15_Witness ==
    /\ Returning
    /\ op.name = "row"
    /\ op.left = <<0, 127>>
    /\ op.right = <<128, 255>>
    /\ Len(TextBatch(Written(log), TextStyleDefault))
         = Len(encode_shift_jis(op.left)) + 4
           + Len(encode_shift_jis(op.right))

IsSeparatorOp == op.name \in {"separator", "double_separator"}

\* C16: a completed separator has written one text line in the default style
\* whose text is N bytes '-' (0x2D), a completed double_separator one whose
\* text is N bytes '=' (0x3D), with N = 48 on 80 mm paper and 32 on 58 mm
\* paper, and one line feed as the last batch.
C16_Separators ==
    (Returning /\ IsSeparatorOp) =>
        LET w == Written(log)
            N == IF paper_width = "Mm80" THEN 48 ELSE 32
            fill == IF op.name = "separator" THEN 45 ELSE 61
        IN  /\ TextBatch(w, TextStyleDefault) = Repeat(fill, N)
            /\ Matches(w, JpTextPattern(Repeat(fill, N), TextStyleDefault)
                          \o << {CTL_LF} >>)
            /\ Occurrences(w, CTL_LF) = 1

\* a separator has been written completely on 80 mm paper
C16_Witness ==
    /\ Returning
    /\ op.name = "separator"
    /\ paper_width = "Mm80"
    /\ Len(TextBatch(Written(log), TextStyleDefault)) = 48
    /\ Last(Written(log)) = CTL_LF

----------------------------------------------------------------------------
(* Properties of the symbol and control parameters                         *)

IsQrSizeCmd(b) == IsCmd(b, QR_SIZE_PREFIX, Len(QR_SIZE_PREFIX) + 1)

\* C17: every cell-size command written by qr_code / qr_code_center carries
\* a parameter byte in 1..16: 4 when no size is requested, the requested
\* value when it is in 1..16, 1 when it is lower, 16 when it is higher.  A
\* completed call has written the command once, and a call fails only on a
\* failed transport call.
C17_QrCellSize ==
    IsQrOp =>
        LET w == Written(log)
            sizes == {k \in 1..Len(w) : IsQrSizeCmd(w[k])}
        IN  /\ \A k \in sizes :
                   LET n == Last(w[k])
                   IN  /\ n \in 1..16
                       /\ op.size = None => n = 4
                       /\ op.size # None =>
                              LET v == op.size[1]
                              IN  /\ v \in 1..16 => n = v
                                  /\ v < 1 => n = 1
                                  /\ v > 16 => n = 16
            /\ Returning => Cardinality(sizes) = 1
            /\ pc = "failed" => ~Last(log).ok

\* a QR code of requested cell size 255 has been printed with cell size 16
C17_Witness ==
    /\ Returning /\ IsQrOp
    /\ op.size = Some(255)
    /\ \E k \in 1..Len(Written(log)) :
           Written(log)[k] = QR_SIZE_PREFIX \o <<16>>

IsBarcodeOp == op.name \in {"barcode_code128", "barcode_code128_center"}

\* the batches of barcode_code128 itself (barcode_code128_center sets the
\* alignment before it and restores it after it)
BarcodePart(w) ==
    IF op.name = "barcode_code128_center" THEN SubSeq(w, 2, Len(w) - 1)
    ELSE w

\* C18: a completed barcode_code128 has written four batches: GS H 2 (HRI
\* below), GS h with the requested height or 50, GS w with a module width in
\* 2..6 (2 when none is requested, the requested value when it is in 2..6,
\* 2 when it is lower, 6 when it is higher), and the print command GS k 73.
C18_BarcodeParameters ==
    (Returning /\ IsBarcodeOp) =>
        LET b == BarcodePart(Written(log))
        IN  /\ Len(b) = 4
            /\ b[1] = <<29, 72, 2>>
            /\ b[2] = <<29, 104,
                         IF op.height = None THEN 50 ELSE op.height[1]>>
            /\ Len(b[3]) = 3
            /\ SubSeq(b[3], 1, 2) = <<29, 119>>
            /\ b[3][3] \in 2..6
            /\ op.width = None => b[3][3] = 2
            /\ op.width # None =>
                   LET v == op.width[1]
                   IN  /\ v \in 2..6 => b[3][3] = v
                       /\ v < 2 => b[3][3] = 2
                       /\ v > 6 => b[3][3] = 6
            /\ IsBarcodePrint(b[4])

\* a barcode of requested height 255 and module width 7 has been printed
\* with height 255 and module width 6
C18_Witness ==
    /\ Returning
    /\ op.name = "barcode_code128"
    /\ op.height = Some(255)
    /\ op.width = Some(7)
    /\ Written(log)[2] = <<29, 104, 255>>
    /\ Written(log)[3] = <<29, 119, 6>>

IsDotsOp == op.name \in {"set_left_margin", "set_print_area_width"}

\* b is the 4-byte command GS c nl nh carrying the dot value d
IsDotsCmd(b, c, d) ==
    /\ Len(b) = 4
    /\ b[1] = 29
    /\ b[2] = c
    /\ b[3] \in 0..255
    /\ b[4] \in 0..255
    /\ b[3] + 256 * b[4] = d

U16 == 0..65535

\* C19: set_print_area_width (GS W) and set_left_margin (GS L) write one
\* 4-byte command whose last two bytes nl, nh satisfy nl + 256 * nh = d, for
\* the dot values the session passes and, as functions, for every 16-bit
\* value; init ends with print-area width 384 as (0x80, 0x01) on 58mm paper
\* and 576 as (0x40, 0x02) on 80mm paper.
C19_DotsLittleEndian ==
    /\ IsDotsOp =>
          LET c == IF op.name = "set_left_margin" THEN 76 ELSE 87
          IN  /\ \A k \in 1..Len(Written(log)) :
                     IsDotsCmd(Written(log)[k], c, op.dots)
              /\ Returning => Len(Written(log)) = 1
    /\ (Returning /\ IsDotsOp /\ op.dots = 65535) =>
          \A d \in U16 :
              /\ Len(set_left_margin(d)) = 1
              /\ IsDotsCmd(set_left_margin(d)[1], 76, d)
              /\ Len(set_print_area_width(d)) = 1
              /\ IsDotsCmd(set_print_area_width(d)[1], 87, d)
    /\ (Returning /\ op.name = "init") =>
          Last(Written(log)) = IF paper_width = "Mm58"
                               THEN <<29, 87, 128, 1>>
                               ELSE <<29, 87, 64, 2>>

\* init has completed on 80mm paper, its last command being GS W 0x40 0x02
C19_Witness ==
    /\ Returning
    /\ op.name = "init"
    /\ paper_width = "Mm80"
    /\ Last(Written(log)) = <<29, 87, 64, 2>>

\* Properties of the paper width

\* the paper width the hint of the running command selects
HintedWidth == IF op.paper_width = Some(80) THEN "Mm80" ELSE "Mm58"

\* C20: the paper width of a print session is the one its hint selects, 80mm
\* for hint 80 and 58mm for every other hint and for none, the print area
\* its init sets is that width's (576 or 384 dots), and no step of an open
\* session changes it; 80mm is 576 dots, 48 narrow and 24 wide columns,
\* 58mm is 384 dots, 32 narrow and 16 wide columns, and the narrow column
\* count is twice the wide one.
C20_PaperWidthOnce ==
    /\ [](IsPrintCommand =>
            /\ paper_width = HintedWidth
            /\ paper_width = "Mm80" <=> op.paper_width = Some(80)
            /\ Len(script) >= 4
            /\ script[4] = IF op.paper_width = Some(80)
                           THEN <<29, 87, Low8(576), High8(576)>>
                           ELSE <<29, 87, Low8(384), High8(384)>>
            /\ <<dots("Mm80"), chars("Mm80"), chars_jp("Mm80")>>
                   = <<576, 48, 24>>
            /\ <<dots("Mm58"), chars("Mm58"), chars_jp("Mm58")>>
                   = <<384, 32, 16>>
            /\ \A pw \in PaperWidth : chars(pw) = 2 * chars_jp(pw)
            /\ \A h \in 0..255 :
                   parse_paper_width(Some(h)) =
                       IF h = 80 THEN "Mm80" ELSE "Mm58"
            /\ parse_paper_width(None) = "Mm58")
    /\ [][pc # "closed" => paper_width' = paper_width]_vars

\* a command called with hint 80 has completed on 80mm paper, and so has
\* set a print area of 576 dots and drawn separators of 48 columns
C20_Witness ==
    /\ Returning
    /\ op.name = "welcome_print"
    /\ op.paper_width = Some(80)
    /\ paper_width = "Mm80"
    /\ Written(log)[4] = <<29, 87, 64, 2>>
    /\ \E k \in 1..Len(Written(log)) : Written(log)[k] = Repeat(45, 48)

----------------------------------------------------------------------------
(* Properties of the receipt formatter                                     *)

IsReceipt == op.name = "print_receipt"

\* the places of the log where a text batch that begins with the label has
\* been written
RowsLabelled(label) ==
    LET l == encode_shift_jis(label)
    IN  {k \in 1..Len(log) :
            /\ log[k].call = "write" /\ log[k].ok
            /\ Len(log[k].data) >= Len(l)
            /\ SubSeq(log[k].data, 1, Len(l)) = l}

\* the text batch of row_auto(left, right) on the session's paper
RowBatch(left, right_) ==
    encode_shift_jis(row_text(left, right_, chars(paper_width)))

CashLabel == <<29694, 37329>>

ChangeLabel == <<12288, 32, 37347, 12426, 37549>>

\* max(0, amount of the first payment labelled cash - total), 0 without one
ChangeDue(r) ==
    LET cash == {i \in 1..Len(r.payments) : r.payments[i].method = CashLabel}
    IN  IF cash = {} THEN 0
        ELSE LET first == CHOOSE i \in cash : \A j \in cash : i <= j
                 amount == r.payments[first].amount
             IN  IF amount > r.total THEN amount - r.total ELSE 0

\* C21: the change of a receipt is max(0, cash amount - total) for the
\* payment labelled exactly with the cash label; a change row is written
\* only when that is greater than zero and then shows exactly that amount,
\* and a receipt that has printed with a change greater than zero has
\* written one change row; without a cash payment there is none.
C21_ChangeDue ==
    IsReceipt =>
        LET due == ChangeDue(op.receipt)
            rows == RowsLabelled(ChangeLabel)
        IN  /\ due >= 0
            /\ rows # {} => due > 0
            /\ \A k \in rows :
                   log[k].data = RowBatch(ChangeLabel, format_price(due))
            /\ Returning => (Cardinality(rows) = 1 <=> due > 0)

\* a receipt of total 750 paid with 1000 in cash has printed a change row
\* showing 250
C21_Witness ==
    /\ Returning
    /\ IsReceipt
    /\ op.receipt.total = 750
    /\ op.receipt.payments = <<Cash(1000)>>
    /\ \E k \in RowsLabelled(ChangeLabel) :
           log[k].data =
               RowBatch(ChangeLabel, <<65509, 50, 53, 48>>)

\* "JAN1 C0094 "
JAN1_C0094 == <<74, 65, 78, 49, 32, 67, 48, 48, 57, 52, 32>>

HasBookJAN1 == IsReceipt /\ op.receipt.items = <<BookJAN1>>

\* the item-number lines written so far for the book "JAN1"
JAN1Lines == RowsLabelled(<<74, 65, 78, 49>>)

\* C22 as stated: the book "JAN1" with the secondary code 1920094001600 is
\* displayed as "JAN1 C0094 " followed by the currency-formatted price 16.
C22_BookDisplay16 ==
    HasBookJAN1 =>
        \A k \in JAN1Lines :
            log[k].data = encode_shift_jis(JAN1_C0094 \o format_price(16))

\* C22: the book "JAN1" with the secondary code 1920094001600 is displayed
\* as the identifier, the category code C0094 from offsets [3:7] and the
\* currency-formatted price 160 parsed from the field "0160" at offsets
\* [8:12]; a receipt that has printed has written that line once.
C22_BookDisplay160 ==
    HasBookJAN1 =>
        /\ slice(BookJAN1.jan2[1], 3, 7) = <<48, 48, 57, 52>>
        /\ slice(BookJAN1.jan2[1], 8, 12) = <<48, 49, 54, 48>>
        /\ format_book_number(BookJAN1.isdn, BookJAN1.jan2)
              = Some(JAN1_C0094 \o format_price(160))
        /\ format_price(160) = <<65509, 49, 54, 48>>
        /\ \A k \in JAN1Lines :
               log[k].data =
                   encode_shift_jis(JAN1_C0094 \o format_price(160))
        /\ Returning => Cardinality(JAN1Lines) = 1

\* the receipt of the book "JAN1" has printed with the line
\* "JAN1 C0094 " and the price 160
C22_Witness ==
    /\ Returning
    /\ HasBookJAN1
    /\ \E k \in JAN1Lines :
           log[k].data =
               encode_shift_jis(JAN1_C0094 \o <<65509, 49, 54, 48>>)

\* the number of characters of a text
chars_count(s) == Len(s)

\* the item-number lines written so far for the item: the text batches that
\* are its jan or begin with its isdn
NumberLines(item) ==
    RowsLabelled(item.jan)
    \cup (IF item.isdn # None /\ item.isdn[1] # <<>>
          THEN RowsLabelled(item.isdn[1]) ELSE {})

\* the item is a book whose number is derived from its secondary code: the
\* code is present with at least 12 characters and the isdn is not empty
IsDerived(item) ==
    /\ item.is_book
    /\ item.jan2 # None /\ chars_count(item.jan2[1]) >= 12
    /\ item.isdn # None /\ item.isdn[1] # <<>>

\* C23 as stated, the identifier displayed unchanged being the jan and the
\* one the derived display starts with the isdn: a receipt does not panic
\* over its items; the number line of an item that is no book, or of a book
\* whose secondary code is absent or shorter than 12 characters or whose
\* isdn is absent or empty, is the jan unchanged; the number line of every
\* other book starts with the isdn followed by a space; a receipt that has
\* printed has written a number line for each item.
C23_BookFallback ==
    (IsReceipt /\ op.receipt.card_details = None) =>
        /\ pc # "panicked"
        /\ \A i \in 1..Len(op.receipt.items) :
              LET item == op.receipt.items[i]
                  lines == NumberLines(item)
              IN  /\ \A k \in lines :
                         IF IsDerived(item)
                         THEN LET l == encode_shift_jis(
                                           item.isdn[1] \o <<32>>)
                              IN  /\ Len(log[k].data) > Len(l)
                                  /\ SubSeq(log[k].data, 1, Len(l)) = l
                         ELSE log[k].data = encode_shift_jis(item.jan)
                  /\ Returning => lines # {}

\* the places of the log
Logged == 1..Len(log)

\* the place of the call logged last: as the log grows by one call at a
\* time, what holds of the last call in every state holds of every call
LoggedLast == {Len(log)} \ {0}

\* the places among S where a text batch that begins with the label has
\* been written
RowsLabelledIn(S, label) ==
    LET l == encode_shift_jis(label)
    IN  {k \in S :
            /\ log[k].call = "write" /\ log[k].ok
            /\ Len(log[k].data) >= Len(l)
            /\ SubSeq(log[k].data, 1, Len(l)) = l}

\* the places among S where the text has been written as a batch
LinesEqualIn(S, txt) ==
    {k \in RowsLabelledIn(S, txt) :
        Len(log[k].data) = Len(encode_shift_jis(txt))}

\* the places among S where a QR store command has been written
QrStores(S) ==
    {k \in S : log[k].call = "write" /\ log[k].ok /\ IsQrStore(log[k].data)}

TaxLabel == <<40, 20869, 32>>

SlipHeader == <<12463, 12524, 12472, 12483, 12488, 22770, 19978, 31080>>

\* the header line of the card-transaction slip on the session's paper
SlipHeaderLine ==
    padded_text(SlipHeader, center(reverse(TextStyleDefault)), paper_width)

SlipRowLabels ==
    {<<21462, 24341, 20869, 23481, 58>>,
     <<25903, 25173, 21306, 20998, 58>>,
     <<12372, 21033, 29992, 37329, 38989, 58>>}

VoucherHeader == <<12304, 21830, 21697, 21048, 31561, 12305>>

VoucherTotalLabel == <<21830, 21697, 21048, 31561, 21512, 35336, 58>>

\* what has been written at the places S of the venue section of the
\* receipt r: its event-name line and its venue-address line
VenueLines(S, r) ==
    (IF r.event_name # <<>> THEN LinesEqualIn(S, r.event_name) ELSE {})
    \cup (IF r.venue_address # None /\ r.venue_address[1] # <<>>
          THEN LinesEqualIn(S, r.venue_address[1]) ELSE {})

\* what has been written at the places S of the card-transaction slip
SlipLines(S) ==
    LinesEqualIn(S, SlipHeaderLine)
    \cup UNION {RowsLabelledIn(S, l) : l \in SlipRowLabels}

\* what has been written at the places S of the voucher block
VoucherLines(S) ==
    RowsLabelledIn(S, VoucherHeader) \cup RowsLabelledIn(S, VoucherTotalLabel)

\* nothing of a section is written unless its data is present, and a
\* command that has printed has written every section whose data is present;
\* venue_data(r) is the data of the venue section
ConditionalSections(venue_data(_)) ==
    /\ IsReceipt =>
          LET r == op.receipt
              tax == r.tax_rate > 0 /\ r.tax_amount > 0
              card == r.card_details # None
          IN  /\ VenueLines(LoggedLast, r) # {} => venue_data(r)
              /\ RowsLabelledIn(LoggedLast, TaxLabel) # {} => tax
              /\ SlipLines(LoggedLast) # {} => card
              /\ (QrStores(LoggedLast) # {}
                  /\ Cardinality(QrStores(Logged)) > 1) => card
              /\ RowsLabelledIn(LoggedLast, ChangeLabel) # {}
                    => ChangeDue(r) > 0
              /\ Returning =>
                    /\ venue_data(r) =>
                          /\ LinesEqualIn(Logged, r.event_name) # {}
                          /\ LinesEqualIn(Logged, r.venue_address[1]) # {}
                    /\ tax => Cardinality(RowsLabelled(TaxLabel)) = 1
                    /\ card =>
                          /\ \A l \in SlipRowLabels : RowsLabelled(l) # {}
                          /\ LinesEqualIn(Logged, SlipHeaderLine) # {}
                    /\ ChangeDue(r) > 0 => RowsLabelled(ChangeLabel) # {}
    /\ op.name = "print_closing_report" =>
          /\ VoucherLines(LoggedLast) # {} => op.report.vouchers # <<>>
          /\ (Returning /\ op.report.vouchers # <<>>) =>
                /\ RowsLabelled(VoucherHeader) # {}
                /\ RowsLabelled(VoucherTotalLabel) # {}

\* the venue address is present and not empty
VenueAddressPresent(r) ==
    r.venue_address # None /\ r.venue_address[1] # <<>>

\* the venue address is present and not empty, and so is the event name
VenueAndEventPresent(r) ==
    VenueAddressPresent(r) /\ r.event_name # <<>>

\* C24 as stated: every conditional section is written if and only if its
\* data is present, the venue section if and only if the venue address is
\* present and not empty.
C24_SectionsIffData == ConditionalSections(VenueAddressPresent)

\* C24: the venue section (event-name line and venue-address line) is
\* written if and only if the venue address is present and not empty and
\* the event name is not empty; the tax row if and only if tax rate and tax
\* amount are both greater than zero; the card slip (header, rows, second
\* QR code) only if card details are present, and header and rows whenever
\* they are; the change row if and only if the change is greater than zero;
\* the voucher block of a closing report (header, total) if and only if the
\* voucher list is not empty.
C24_SectionsIffDataAndEvent == ConditionalSections(VenueAndEventPresent)

\* a receipt with card details has printed its slip and two QR codes
C24_Witness ==
    /\ Returning
    /\ IsReceipt
    /\ op.receipt.card_details # None
    /\ SlipLines(Logged) # {}
    /\ Cardinality(QrStores(Logged)) = 2

TotalLabel == <<21512, 35336, 40, 31246, 36796, 41>>

FullWidthDigits == 65296..65305

\* the characters a printer call displays
Displayed(c) ==
    IF c.name \in {"jp_textln", "jp_textln_padded", "textln"} THEN c.txt
    ELSE IF c.name \in {"row_auto", "row_auto_bold"}
    THEN c.left \o c.right
    ELSE <<>>

\* C25 as stated: the grand-total line of a receipt, the row labelled
\* 合計(税込), shows its amount in full-width digits and no ASCII digit,
\* and no other line of the receipt holds a full-width digit.
C25_TotalFullWidth ==
    IsReceipt =>
        /\ \A k \in RowsLabelledIn(LoggedLast, TotalLabel) :
              /\ \A i \in 1..Len(log[k].data) : log[k].data[i] \notin 48..57
              /\ \E i \in 1..(Len(log[k].data) - 1) :
                     /\ log[k].data[i] = 130
                     /\ log[k].data[i + 1] \in 79..88
        /\ Returning =>
              \A c \in {Calls(op)[j] : j \in 1..Len(Calls(op))} :
                  (c.name = "row_auto_bold" /\ c.left = TotalLabel)
                  \/ \A i \in 1..Len(Displayed(c)) :
                         Displayed(c)[i] \notin FullWidthDigits

\* the largest u with u * quantity <= price, and the price itself when
\* the quantity is 0
FloorUnitPrice(item) ==
    IF item.quantity > 0
    THEN CHOOSE u \in 0..item.price :
            /\ u * item.quantity <= item.price
            /\ item.price < (u + 1) * item.quantity
    ELSE item.price

\* the price line of an item: "@ ", unit price, quantity, total item price
PriceLine(item) ==
    encode_shift_jis(
        <<64, 32>> \o format_price(FloorUnitPrice(item)) \o <<12288, 32>>
        \o to_string(item.quantity) \o <<32, 28857, 12288>>
        \o format_price(item.price))

PriceLabel == <<64, 32>>

\* C28: every price line a receipt writes is the line of one of its items
\* with the unit price floor(price / quantity), or the price itself for the
\* quantity 0; a receipt that has printed has written the price line of
\* each of its items, those of quantity 0 included.
C28_UnitPrice ==
    IsReceipt =>
        LET items == op.receipt.items
        IN  /\ \A k \in RowsLabelledIn(LoggedLast, PriceLabel) :
                  \E i \in 1..Len(items) : log[k].data = PriceLine(items[i])
            /\ Returning =>
                  /\ Cardinality(RowsLabelled(PriceLabel)) = Len(items)
                  /\ \A i \in 1..Len(items) :
                         \E k \in RowsLabelled(PriceLabel) :
                             log[k].data = PriceLine(items[i])

\* a receipt with an item of quantity 0 and price 1600 has printed, with
\* 1600 as the unit price of that item
C28_Witness ==
    /\ Returning
    /\ IsReceipt
    /\ \E i \in 1..Len(op.receipt.items) :
           /\ op.receipt.items[i].quantity = 0
           /\ op.receipt.items[i].price = 1600
           /\ \E k \in RowsLabelled(PriceLabel) :
                  log[k].data =
                      encode_shift_jis(
                          <<64, 32, 65509, 49, 44, 54, 48, 48, 12288, 32, 48,
                            32, 28857, 12288, 65509, 49, 44, 54, 48, 48>>)

----------------------------------------------------------------------------
(* Properties of the formatting functions                                  *)

RECURSIVE Pow10(_)
Pow10(k) == IF k = 0 THEN 1 ELSE 10 * Pow10(k - 1)

\* the number of digits of the decimal representation of n (n < 2^31)
NumDigits(n) ==
    IF n >= Pow10(9) THEN 10
    ELSE CHOOSE l \in 1..9 :
            n < Pow10(l) /\ (l = 1 \/ n >= Pow10(l - 1))

\* the i-th digit, from the left, of the decimal representation of n
Digit(n, i) == (n \div Pow10(NumDigits(n) - i)) % 10

Returned(name) == pc = "returned" /\ op.name = name

\* C26: to_fullwidth_number returns as many characters as the decimal
\* representation of the number has digits, and its i-th character is the
\* full-width form U+FF10 + d of the i-th digit d: no other character
\* stands in the result.
C26_FullWidthDigits ==
    Returned("to_fullwidth_number") =>
        /\ Len(ret) = NumDigits(op.num)
        /\ \A i \in 1..Len(ret) : ret[i] = 65296 + Digit(op.num, i)

\* to_fullwidth_number(1205) has returned the full-width 1, 2, 0, 5
C26_Witness ==
    /\ Returned("to_fullwidth_number")
    /\ op.num = 1205
    /\ ret = <<65297, 65298, 65296, 65301>>

\* the text without its separators
RECURSIVE Ungrouped(_)
Ungrouped(s) ==
    IF s = <<>> THEN <<>>
    ELSE IF Head(s) = 44 THEN Ungrouped(Tail(s))
    ELSE <<Head(s)>> \o Ungrouped(Tail(s))

\* C27: format_price returns the full-width yen sign followed by the
\* decimal digits of the amount with a ',' exactly before every group of
\* three digits counted from the right: the text after the glyph neither
\* begins nor ends with a separator, a separator stands at a place if and
\* only if the place is the 4th, 8th, 12th from the right, every other
\* place holds the digit of the decimal representation, in order, and
\* nothing follows the digits (no fractional part).
C27_CurrencyFormat ==
    Returned("format_price") =>
        LET r == Tail(ret)
            n == Len(r)
            d == NumDigits(op.price)
        IN  /\ ret # <<>> /\ ret[1] = 65509
            /\ n = d + ((d - 1) \div 3)
            /\ r[1] # 44 /\ r[n] # 44
            /\ \A i \in 1..n : (r[i] = 44) <=> ((n - i + 1) % 4 = 0)
            /\ Len(Ungrouped(r)) = d
            /\ \A i \in 1..d : Ungrouped(r)[i] = 48 + Digit(op.price, i)
            /\ op.price = 0 => ret = <<65509, 48>>
            /\ op.price = 999 => ret = <<65509, 57, 57, 57>>
            /\ op.price = 1000 => ret = <<65509, 49, 44, 48, 48, 48>>
            /\ op.price = 1234567 =>
                   ret = <<65509, 49, 44, 50, 51, 52, 44, 53, 54, 55>>

\* format_price(1234567) has returned the glyph and "1,234,567"
C27_Witness ==
    /\ Returned("format_price")
    /\ op.price = 1234567
    /\ ret = <<65509, 49, 44, 50, 51, 52, 44, 53, 54, 55>>

\* C29 as stated, lengths and positions counted in characters: the function
\* returns for every input; for an input of at least 16 characters the
\* result is its characters [0:10] with every '-' replaced by '/', a space,
\* and its characters [11:16], 16 characters in all; a shorter input is
\* returned unchanged.
C29_TimestampFormat ==
    op.name = "format_transaction_datetime" =>
        LET t == op.iso_datetime
            date == SubSeq(t, 1, 10)
        IN  /\ pc = "returned"
            /\ Len(t) >= 16 =>
                  /\ Len(ret) = 16
                  /\ \A i \in 1..10 :
                         ret[i] = IF date[i] = 45 THEN 47 ELSE date[i]
                  /\ ret[11] = 32
                  /\ SubSeq(ret, 12, 16) = SubSeq(t, 12, 16)
            /\ Len(t) < 16 => ret = t

----------------------------------------------------------------------------
(* Properties of two requests against one device                           *)

\* the batches the first request has written, oldest first
FirstWritten ==
    [j \in 1..((Len(log) + 1) \div 2) |-> log[2 * j - 1].data] \o <<>>

\* C30: each of two requests running against one device passes its batches
\* to the transport in the order of its own program, each batch once: what a
\* request has written is at every moment the beginning of its program, as
\* long as the number of its completed raw calls says.  (That the batches of
\* the two requests alternate at the device is shown by the state
\* C30_Witness.)
C30_ProgramOrder ==
    /\ IsPrintCommand =>
          /\ \A k \in 1..Len(log) :
                log[k].call = (IF k % 2 = 1 THEN "write" ELSE "flush")
          /\ Len(FirstWritten) = sent + (IF io = "flush" THEN 1 ELSE 0)
          /\ Len(FirstWritten) <= Len(script)
          /\ FirstWritten = SubSeq(script, 1, Len(FirstWritten))
    /\ other.pc = "busy" =>
          /\ Len(other.log)
                = other.sent + (IF other.io = "flush" THEN 1 ELSE 0)
          /\ Len(other.log) <= Len(other.script)
          /\ other.log = SubSeq(other.script, 1, Len(other.log))

\* the text of text_print, called in the default style, has just reached
\* the device while the device is in bold, underline and centred, the
\* style welcome_print has set for its title and not yet reset
C30_Witness ==
    /\ pc = "busy" /\ io = "flush"
    /\ op.name = "text_print"
    /\ op.text = <<65>>
    /\ Last(log).call = "write" /\ Last(log).ok
    /\ Last(log).data = encode_shift_jis(op.text)
    /\ other.pc = "busy"
    /\ dev.bold /\ dev.underline /\ dev.align = "Center"

----------------------------------------------------------------------------
(* Properties of the style at the device                                   *)

\* the style requested by the text operation in progress
RequestedStyle ==
    IF op.name \in {"text", "textln"} THEN TextStyleDefault ELSE op.style

\* the style the device prints the next characters in: the combined size
\* of ESC ! and the size flags of FS ! (bit 2 width, bit 3 height) both
\* enlarge a double-byte character
DeviceStyle ==
    [align |-> dev.align, bold |-> dev.bold, underline |-> dev.underline,
     reverse |-> dev.reverse,
     double_width |-> dev.double_size \/ (dev.kanji_size \div 4) % 2 = 1,
     double_height |-> dev.double_size \/ (dev.kanji_size \div 8) % 2 = 1]

\* the encoded text of the text operation in progress has just been written
TextArrived ==
    /\ op.name \in {"jp_text", "jp_textln", "text", "textln"}
    /\ pc = "busy" /\ io = "flush"
    /\ Program[sent + 1] = encode_shift_jis(op.txt)
    /\ Last(log) = WriteCall(encode_shift_jis(op.txt), TRUE)

\* C31: in a session begun with init, when the encoded text of a jp_text,
\* jp_textln, text or textln call has been written, the device is in
\* double-byte mode and its alignment, bold, underline (single- and
\* double-byte), reverse, double width and double height are those of the
\* style of the call, whatever operations returned before it in the session.
C31_StyleAtText ==
    TextArrived =>
        /\ DeviceStyle = RequestedStyle
        /\ dev.jp_underline = RequestedStyle.underline
        /\ dev.kanji_mode

\* a text in the default style arrives at a device in the default style,
\* and a text of double width, bold, right aligned at a device in that style
C31_Witness ==
    /\ TextArrived
    /\ op.name = "jp_textln"
    /\ op.txt = <<12354>>
    /\ op.style = [TextStyleDefault EXCEPT !.bold = TRUE, !.align = "Right",
                                           !.double_width = TRUE]
    /\ dev.kanji_size = 4 /\ ~dev.double_size /\ dev.bold
    /\ dev.align = "Right"

----------------------------------------------------------------------------
(* Properties of a receipt with several cash payments                      *)

\* the places of the payments labelled with the cash label, in order
CashPlaces(r) ==
    {i \in 1..Len(r.payments) : r.payments[i].method = CashLabel}

\* the first of them
FirstCash(r) ==
    r.payments[CHOOSE i \in CashPlaces(r) : \A j \in CashPlaces(r) : i <= j]

\* C32: on a receipt with more than one payment labelled cash the change is
\* the amount of the first of them minus the total, or nothing if that is
\* not above the total, whatever the later cash payments are: at most one
\* change row is written, it shows that difference, and the printed receipt
\* has one exactly when the first cash payment exceeds the total.
C32_FirstCashOnly ==
    (IsReceipt /\ Cardinality(CashPlaces(op.receipt)) > 1) =>
        LET r == op.receipt
            first == FirstCash(r).amount
            rows == RowsLabelled(ChangeLabel)
        IN  /\ Cardinality(rows) <= 1
            /\ rows # {} => first > r.total
            /\ \A k \in rows :
                   log[k].data =
                       RowBatch(ChangeLabel, format_price(first - r.total))
            /\ Returning => (rows # {} <=> first > r.total)

\* a receipt of total 1000 paid with 500 and 2000 in cash has printed
\* without a change row, and one paid with 1200 and 300 in cash shows a
\* change of 200
C32_Witness ==
    /\ Returning
    /\ IsReceipt
    /\ op.receipt.total = 1000
    /\ \/ /\ op.receipt.payments = <<Cash(500), Cash(2000)>>
          /\ RowsLabelled(ChangeLabel) = {}
          /\ Cardinality(RowsLabelled(<<12288, 32>> \o CashLabel)) = 2
       \/ /\ op.receipt.payments = <<Cash(1200), Cash(300)>>
          /\ \E k \in RowsLabelled(ChangeLabel) :
                 log[k].data = RowBatch(ChangeLabel, <<65509, 50, 48, 48>>)

----------------------------------------------------------------------------
(* Properties of the terminal identity.  A property of a call is stated    *)
(* on the step of the call: the stores before it are `store`, the stores   *)
(* after it `store'`, its faults and its result are in `term'`.            *)

\* the terminal id that can be loaded from the stores s when the calls F
\* fail: the keychain entry if it is there and can be read, else the file's
LoadableId(s, F) ==
    IF s.kc_id # None /\ "get_id" \notin F THEN s.kc_id
    ELSE IF s.file # None THEN Some(s.file[1].terminal_id)
    ELSE None

\* the same for the private key, as the public key text it stands for
LoadablePublicKey(s, F) ==
    IF s.kc_key # None /\ "get_key" \notin F
    THEN Some([base64 |-> [public |-> s.kc_key[1].base64.secret]])
    ELSE IF s.file # None
    THEN Some([base64 |-> [public |-> s.file[1].private_key.base64.secret]])
    ELSE None

\* the step is a call of the command
IsCall(cmd) == term'.cmd = cmd

AlreadyInitialized == Err("Keychain error: Terminal already initialized")

\* the credentials of the identity a successful call has returned
Credentials(payload) ==
    [terminal_id |-> payload.terminal_id,
     private_key |-> [base64 |-> [secret |-> payload.public_key.base64.public]]]

Initialized(payload) ==
    Ok([status |-> "initialized", terminal_id |-> Some(payload.terminal_id),
        public_key |-> Some(payload.public_key), error |-> None])

\* C35: the get_terminal_status that follows a successful
\* initialize_terminal reports "initialized" with the terminal id and the
\* public key that initialize_terminal returned, whichever keychain calls
\* failed before and during the two calls.
C35_StatusAfterInitialize ==
    [][(/\ term.cmd = "initialize_terminal"
        /\ term.result.ok
        /\ IsCall("get_terminal_status")) =>
            term'.result = Initialized(term.result.value)
      ]_vars

\* C36: an initialize_terminal that returns an error has written nothing:
\* the keychain entries and the fallback file are as they were before the
\* call.
C36_FailedInitializeWritesNothing ==
    [][(IsCall("initialize_terminal") /\ ~term'.result.ok) => store' = store
      ]_vars

\* C37: when clear_keychain has returned Ok, whichever deletions of keychain
\* entries failed, nothing is left in the keychain and in the file; the
\* get_terminal_status that follows reports "uninitialized", and the
\* initialize_terminal that follows (the file being writable) returns a new
\* identity.
C37_ClearLeavesNothing ==
    /\ [](term.cmd = "clear_terminal_keychain" =>
            (term.result.ok => store = EmptyStore))
    /\ [][(/\ term.cmd = "clear_terminal_keychain"
           /\ term.result.ok
           /\ IsCall("get_terminal_status")) =>
             (term'.result.ok /\ term'.result.value.status = "uninitialized")
         ]_vars
    /\ [][(/\ term.cmd = "clear_terminal_keychain"
           /\ term.result.ok
           /\ IsCall("initialize_terminal")
           /\ "write_file" \notin term'.failed) =>
             /\ term'.result.ok
             /\ term'.result.value.terminal_id = Uuid(made')
             /\ made' = made + 1
         ]_vars

\* the command of the step and the one before it are generate_registration_qr
\* calls that returned Ok, with no call of the keychain or the file failing
ConsecutiveQr ==
    /\ term.cmd = "generate_registration_qr"
    /\ term.result.ok /\ term.failed = {}
    /\ IsCall("generate_registration_qr")
    /\ term'.result.ok /\ term'.failed = {}

====
